---- MODULE Spec2Model ----
(***************************************************************************)
(* Client-side session state machine of NexusAuto: the Session Store, the  *)
(* axios wrapper (apiClient) with its interceptors, the ProtectedRoute     *)
(* guard, the navigation bar's logout and the ProfileManager's profile     *)
(* update and password change, the admin page's employee creation and the  *)
(* registration form, and the booking page (Home) with bookingAPI.  One    *)
(* action is one JavaScript event handler running to completion, with the  *)
(* effects of the renders it causes; a request in flight is the only       *)
(* suspension point.                                                       *)
(* Spec is the guard's life over several mounts; FormsSpec is one visit of *)
(* a guarded page with its forms, of the public registration page or of    *)
(* the booking page, and FairFormsSpec is that visit where whatever can    *)
(* run does run; PureSpec applies the validators, the navigation filter,   *)
(* the imperative checks, handleApiError and a whole mount of the guard to *)
(* inputs drawn from bounded sets.                                         *)
(***************************************************************************)
EXTENDS Integers, Sequences, FiniteSets, TLC

(* ------------------------------ bounds --------------------------------- *)
\* mounts of ProtectedRoute in one run
MaxMounts == 2
\* requests in flight at the same time
MaxInflight == 2
\* the per-mount history counters saturate here
MaxCount == 3
\* longest tail of a password, longest email and longest name drawn
MaxTail == 3
MaxEmail == 5
MaxName == 4

(* ------------------------------ values --------------------------------- *)
\* JavaScript null for the token
NULL == "NULL"
Tokens == {"abc"}
Roles == {"ROLE_CUSTOMER", "ROLE_EMPLOYEE", "ROLE_ADMIN"}
FirstNames == {"Ann", "Bob"}
\* UserResponse, reduced to the fields the handlers read
Users == [role : Roles, firstName : FirstNames]
\* JavaScript null for the user; user?.role || "" reads "" from it
NoUser == [role |-> "", firstName |-> ""]

\* the required-role arrays the pages pass, and one that differs from a role
\* only in case
RequiredRoleSets ==
  { {}, {"ROLE_ADMIN"}, {"ROLE_EMPLOYEE", "ROLE_ADMIN"}, {"role_customer"} }

\* axios errors: status 0 stands for error.response === undefined
NoResponse == 0
ApiErrors ==
  { [isAxiosError |-> TRUE, status |-> 401, data |-> "Unauthorized",
     message |-> "Request failed with status code 401"],
    [isAxiosError |-> TRUE, status |-> 403, data |-> "",
     message |-> "Request failed with status code 403"],
    [isAxiosError |-> TRUE, status |-> 500, data |-> "Internal error",
     message |-> "Request failed with status code 500"],
    [isAxiosError |-> TRUE, status |-> NoResponse, data |-> "",
     message |-> "Network Error"] }
NoError == [isAxiosError |-> TRUE, status |-> 200, data |-> "", message |-> ""]

\* the values a catch block can hand to handleApiError.  data is
\* error.response.data as it would be displayed, a JSON body by its text;
\* carried is the message the backend put in the body, "" if none
ErrorValues ==
  { [isAxiosError |-> TRUE, status |-> 400, data |-> "Email already registered",
     message |-> "Request failed with status code 400",
     carried |-> "Email already registered"],
    [isAxiosError |-> TRUE, status |-> 400,
     data |-> "{message: Email already registered}",
     message |-> "Request failed with status code 400",
     carried |-> "Email already registered"],
    [isAxiosError |-> TRUE, status |-> 500, data |-> "",
     message |-> "Request failed with status code 500", carried |-> ""],
    [isAxiosError |-> TRUE, status |-> NoResponse, data |-> "",
     message |-> "Network Error", carried |-> ""],
    [isAxiosError |-> TRUE, status |-> NoResponse, data |-> "",
     message |-> "", carried |-> ""],
    [isAxiosError |-> FALSE, status |-> NoResponse, data |-> "",
     message |-> "x is not a function", carried |-> ""],
    [isAxiosError |-> FALSE, status |-> NoResponse, data |-> "",
     message |-> "", carried |-> ""] }

\* all sequences over S of length at most n
Seqs(S, n) == UNION { [1..k -> S] : k \in 0..n }

\* n characters that are neither letters nor digits
Pad(n) == [i \in 1..n |-> "!"]

\* passwords: a pad followed by up to MaxTail characters of the four kinds,
\* so that lengths 0..3 and 4..9 occur with every mix of kinds at 7, 8 and 9
Passwords == { Pad(n) \o t : n \in {0, 4, 5, 6}, t \in Seqs({"a", "A", "1", "!"}, MaxTail) }

\* the empty string, p itself and a string that differs from p
Variants(p) == { << >>, p, p \o <<"x">> }

\* a password that satisfies every rule
StrongPassword == Pad(5) \o <<"a", "A", "1">>

EmailInputs == Seqs({"a", "@", ".", " "}, MaxEmail)
ValidEmail == <<"a", "@", "a", ".", "a">>

NameSeqs == Seqs({" ", "a"}, MaxName)

\* the targets a caller of requireAuth / requireRole supplies
Paths == {"/login", "/", "/unauthorized"}

\* trimmed-name inputs of the profile form, as character sequences
NameInputs ==
  { << >>, <<" ">>, <<"a">>, <<" ", "a", " ">>, <<"a", "b">>, <<" ", "a", "b">> }

VARIABLES
  token, user, isAuthenticated, isLoading,      \* Session Store (AuthState)
  mounted, requiredRole, isInitialized,         \* ProtectedRoute instance
  effectRan, depToken, depUser,                 \* deps of its last effect run
  isUpdatingProfile, profileMessage, profileErrors,  \* ProfileManager
  inflight,                                     \* requests awaiting a response
  hrefPending,                                  \* window.location.href was set
  mounts,                                       \* mounts so far
  hist,                                         \* history of the current mount
  last,                                         \* what the last handler did
  pw,                                           \* ProfileManager, password tab
  adm,                                          \* AdminDashboardContent
  reg,                                          \* RegisterForm
  bk,                                           \* the booking page (Home)
  vin, vout, vdone                              \* a pure function's call

vars ==
  << token, user, isAuthenticated, isLoading, mounted, requiredRole,
     isInitialized, effectRan, depToken, depUser, isUpdatingProfile,
     profileMessage, profileErrors, inflight, hrefPending, mounts, hist, last,
     pw, adm, reg, bk, vin, vout, vdone >>

(* --------------------------- Session Store ----------------------------- *)
Store == [token |-> token, user |-> user,
          isAuthenticated |-> isAuthenticated, isLoading |-> isLoading]

login(st, t, u) ==
  [st EXCEPT !.token = t, !.user = u, !.isAuthenticated = TRUE]

logout(st) ==
  [st EXCEPT !.token = NULL, !.user = NoUser, !.isAuthenticated = FALSE]

updateUser(st, u) == [st EXCEPT !.user = u]

setLoading(st, b) == [st EXCEPT !.isLoading = b]

hasRole(u, role) == u.role = role

(* ---------------------------- apiClient -------------------------------- *)
\* an interceptor that never attaches the header
RequestInterceptorNoHeader(st) == NULL

\* request interceptor: the header carries the store's token at send time
RequestInterceptor(st) == st.token

\* a wrapper that redirects on 401 without clearing the session
ResponseInterceptorNoLogout(st, error) ==
  IF error.status = 401
    THEN [st |-> st, eff |-> <<"href:/login">>, href |-> TRUE, err |-> error]
    ELSE [st |-> st, eff |-> << >>, href |-> FALSE, err |-> error]

\* a wrapper that treats 403 as it treats 401
ResponseInterceptorLogoutOn403(st, error) ==
  IF error.status \in {401, 403}
    THEN [st |-> logout(st), eff |-> <<"logout", "href:/login">>,
          href |-> TRUE, err |-> error]
    ELSE [st |-> st, eff |-> << >>, href |-> FALSE, err |-> error]

\* response interceptor, error branch: the store after it, its effects in
\* order, whether it set window.location.href, and the error it rejects with.
\* Every caller runs in the browser (event handlers and effects of client
\* components), so typeof window !== "undefined" holds.
ResponseInterceptor(st, error) ==
  IF error.status = 401
    THEN [st |-> logout(st), eff |-> <<"logout", "href:/login">>,
          href |-> TRUE, err |-> error]
    ELSE IF error.status = 403
      THEN [st |-> st, eff |-> <<"console.error">>, href |-> FALSE, err |-> error]
      ELSE IF error.status = NoResponse
        THEN [st |-> st, eff |-> <<"console.error">>, href |-> FALSE, err |-> error]
        ELSE [st |-> st, eff |-> << >>, href |-> FALSE, err |-> error]

Unexpected == "An unexpected error occurred. Please try again."

\* error.response?.data || error.message for an axios error, the fixed string
\* for anything else
handleApiError(error) ==
  IF error.isAxiosError
    THEN IF error.status # NoResponse /\ error.data # ""
           THEN error.data ELSE error.message
    ELSE Unexpected

(* --------------------------- ProtectedRoute ---------------------------- *)
\* a render that forgets the role check
ProtectedRouteViewNoRoleCheck(init, ia, u, req) ==
  IF ~init THEN "loading"
  ELSE IF ~ia \/ u = NoUser THEN "null"
  ELSE "children"

\* a render that asks for every required role (every() for some())
ProtectedRouteViewEveryRole(init, ia, u, req) ==
  IF ~init THEN "loading"
  ELSE IF ~ia \/ u = NoUser THEN "null"
  ELSE IF req # {} /\ ~(\A role \in req : hasRole(u, role)) THEN "forbidden"
  ELSE "children"

\* what one render returns
ProtectedRouteView(init, ia, u, req) ==
  IF ~init THEN "loading"
  ELSE IF ~ia \/ u = NoUser THEN "null"
  ELSE IF req # {} /\ ~(\E role \in req : hasRole(u, role)) THEN "forbidden"
  ELSE "children"

View == IF mounted
          THEN ProtectedRouteView(isInitialized, isAuthenticated, user, requiredRole)
          ELSE "unmounted"

\* an initializeAuth that fetches whenever there is a token
NeedsProfileFetchAlways(t, u) == t # NULL

\* initializeAuth fetches the profile on this condition
NeedsProfileFetch(t, u) == t # NULL /\ u = NoUser

\* the props the three wrappers pass to ProtectedRoute
AdminOnlyEmployeeToo == {"ROLE_ADMIN", "ROLE_EMPLOYEE"}

AdminOnly == {"ROLE_ADMIN"}
EmployeeOnly == {"ROLE_EMPLOYEE", "ROLE_ADMIN"}
AuthenticatedOnly == {}

\* the guard each protected page wraps its content in
AdminPage == AdminOnly
ProfilePage == {}
EmployeePage == EmployeeOnly
GuardedRoutes == {"/profile", "/employee", "/admin"}
RouteGuard(href) ==
  CASE href = "/admin" -> AdminPage
    [] href = "/employee" -> EmployeePage
    [] OTHER -> ProfilePage

(* ---------------------------- ProfileManager --------------------------- *)
\* an error mapping (Record<string, string>) with no entry
NoErrors == << >>

IsSpace(c) == c = " "

RECURSIVE TrimStart(_)
TrimStart(s) ==
  IF s = << >> THEN s
  ELSE IF IsSpace(Head(s)) THEN TrimStart(Tail(s)) ELSE s

RECURSIVE TrimEnd(_)
TrimEnd(s) ==
  IF s = << >> THEN s
  ELSE IF IsSpace(s[Len(s)]) THEN TrimEnd(SubSeq(s, 1, Len(s) - 1)) ELSE s

\* a trim that removes nothing
TrimNone(s) == s

Trim(s) == TrimEnd(TrimStart(s))

validateProfile(firstName, lastName) ==
  (IF Len(Trim(firstName)) < 2 THEN {"firstName"} ELSE {})
    \cup (IF Len(Trim(lastName)) < 2 THEN {"lastName"} ELSE {})

\* the character classes of the patterns, on the characters the inputs use;
\* "!" and "x" are in none of them
IsLower(c) == c \in {"a", "b", "x"}
IsUpper(c) == c \in {"A"}
IsDigit(c) == c \in {"1"}

\* /\S+@\S+\.\S+/.test(s): somewhere in s, a run of non-space characters, "@",
\* a run of non-space characters, ".", a run of non-space characters
EmailPattern(s) ==
  \E i \in 1..Len(s), a \in 1..Len(s), d \in 1..Len(s), e \in 1..Len(s) :
    /\ i < a /\ a + 1 < d /\ d < e
    /\ s[a] = "@" /\ s[d] = "."
    /\ \A x \in (i..(a - 1)) \cup ((a + 1)..(d - 1)) \cup ((d + 1)..e) :
         ~IsSpace(s[x])

\* a pattern without the digit lookahead
PasswordPatternNoDigit(s) ==
  \E i \in 1..(Len(s) + 1) :
    /\ \E j \in i..Len(s) : IsLower(s[j])
    /\ \E j \in i..Len(s) : IsUpper(s[j])

\* /(?=.*[a-z])(?=.*[A-Z])(?=.*\d)/.test(s): a position from which each of the
\* three lookaheads finds its character (an input field holds no line break,
\* so "." matches every character)
PasswordPattern(s) ==
  \E i \in 1..(Len(s) + 1) :
    /\ \E j \in i..Len(s) : IsLower(s[j])
    /\ \E j \in i..Len(s) : IsUpper(s[j])
    /\ \E j \in i..Len(s) : IsDigit(s[j])

\* RegisterForm.validateForm: the mapping it passes to setErrors
validateForm(formData) ==
  LET firstName ==
        IF Trim(formData.firstName) = << >>
          THEN "firstName" :> "First name is required"
        ELSE IF Len(Trim(formData.firstName)) < 2
          THEN "firstName" :> "First name must be at least 2 characters"
        ELSE NoErrors
      lastName ==
        IF Trim(formData.lastName) = << >>
          THEN "lastName" :> "Last name is required"
        ELSE IF Len(Trim(formData.lastName)) < 2
          THEN "lastName" :> "Last name must be at least 2 characters"
        ELSE NoErrors
      email ==
        IF formData.email = << >> THEN "email" :> "Email is required"
        ELSE IF ~EmailPattern(formData.email) THEN "email" :> "Email is invalid"
        ELSE NoErrors
      password ==
        IF formData.password = << >>
          THEN "password" :> "Password is required"
        ELSE IF Len(formData.password) < 8
          THEN "password" :> "Password must be at least 8 characters"
        ELSE IF ~PasswordPattern(formData.password)
          THEN "password" :> "Password must contain at least one uppercase letter, one lowercase letter, and one number"
        ELSE NoErrors
      confirmPassword ==
        IF formData.confirmPassword = << >>
          THEN "confirmPassword" :> "Please confirm your password"
        ELSE IF formData.password # formData.confirmPassword
          THEN "confirmPassword" :> "Passwords do not match"
        ELSE NoErrors
  IN  firstName @@ lastName @@ email @@ password @@ confirmPassword

\* a password validation without the must-differ rule
validatePasswordNoDifferent(currentPassword, newPassword, confirmPassword) ==
  LET current ==
        IF currentPassword = << >>
          THEN "currentPassword" :> "Current password is required"
        ELSE NoErrors
      new ==
        IF newPassword = << >>
          THEN "newPassword" :> "New password is required"
        ELSE IF Len(newPassword) < 8
          THEN "newPassword" :> "Password must be at least 8 characters"
        ELSE IF ~PasswordPattern(newPassword)
          THEN "newPassword" :> "Password must contain at least one uppercase letter, one lowercase letter, and one number"
        ELSE NoErrors
      confirm ==
        IF confirmPassword = << >>
          THEN "confirmPassword" :> "Please confirm your new password"
        ELSE IF newPassword # confirmPassword
          THEN "confirmPassword" :> "Passwords do not match"
        ELSE NoErrors
  IN  current @@ new @@ confirm

\* ProfileManager.validatePassword: the mapping it passes to setPasswordErrors;
\* the last assignment replaces an entry the strength rule made
validatePassword(currentPassword, newPassword, confirmPassword) ==
  LET current ==
        IF currentPassword = << >>
          THEN "currentPassword" :> "Current password is required"
        ELSE NoErrors
      new ==
        IF newPassword = << >>
          THEN "newPassword" :> "New password is required"
        ELSE IF Len(newPassword) < 8
          THEN "newPassword" :> "Password must be at least 8 characters"
        ELSE IF ~PasswordPattern(newPassword)
          THEN "newPassword" :> "Password must contain at least one uppercase letter, one lowercase letter, and one number"
        ELSE NoErrors
      confirm ==
        IF confirmPassword = << >>
          THEN "confirmPassword" :> "Please confirm your new password"
        ELSE IF newPassword # confirmPassword
          THEN "confirmPassword" :> "Passwords do not match"
        ELSE NoErrors
      different ==
        IF currentPassword = newPassword
          THEN "newPassword" :> "New password must be different from current password"
        ELSE NoErrors
  IN  different @@ current @@ new @@ confirm

(* ---------------------------- Navigation ------------------------------- *)
\* every link the navigation bar can build, in the order it builds them
AllLinks ==
  << [name |-> "Home", href |-> "/", roles |-> {}],
     [name |-> "Profile", href |-> "/profile",
      roles |-> {"ROLE_CUSTOMER", "ROLE_EMPLOYEE", "ROLE_ADMIN"}],
     [name |-> "Customer Dashboard", href |-> "/customer",
      roles |-> {"ROLE_CUSTOMER"}],
     [name |-> "Employee Dashboard", href |-> "/employee",
      roles |-> {"ROLE_EMPLOYEE", "ROLE_ADMIN"}],
     [name |-> "Admin Dashboard", href |-> "/admin", roles |-> {"ROLE_ADMIN"}] >>

\* a bar that builds every link whatever the session is
navigationLinksUnconditional(ia, u) == AllLinks

\* the array literal with its conditional spreads
navigationLinks(ia, u) ==
  <<AllLinks[1]>> \o
    (IF ia
       THEN <<AllLinks[2]>>
            \o (IF u.role = "ROLE_CUSTOMER" THEN <<AllLinks[3]>> ELSE << >>)
            \o (IF u.role = "ROLE_EMPLOYEE" \/ u.role = "ROLE_ADMIN"
                  THEN <<AllLinks[4]>> ELSE << >>)
            \o (IF u.role = "ROLE_ADMIN" THEN <<AllLinks[5]>> ELSE << >>)
       ELSE << >>)

filteredLinks(ia, u) ==
  LET keep(link) == link.roles = {} \/ ~ia \/ u.role \in link.roles
  IN  SelectSeq(navigationLinks(ia, u), keep)

(* ------------------------- useRouteProtection -------------------------- *)
\* the value returned and the path given to router.push ("" for no push)
requireAuth(ia, redirectPath) ==
  IF ~ia THEN [ok |-> FALSE, push |-> redirectPath]
  ELSE [ok |-> TRUE, push |-> ""]

requireRole(ia, u, roles, redirectPath) ==
  IF ~ia \/ u = NoUser THEN [ok |-> FALSE, push |-> "/login"]
  ELSE IF ~(\E role \in roles : hasRole(u, role))
    THEN [ok |-> FALSE, push |-> redirectPath]
  ELSE [ok |-> TRUE, push |-> ""]

NoMessage == ""
ProfileUpdated == "Profile updated successfully!"

(* ------------------------------ state ---------------------------------- *)
\* a form's fields, each a character sequence; the fields a form lacks are empty
NoForm == [firstName |-> << >>, lastName |-> << >>, email |-> << >>,
           password |-> << >>, confirmPassword |-> << >>,
           currentPassword |-> << >>]

NoPw == [isChangingPassword |-> FALSE, passwordMessage |-> NoMessage,
         passwordErrors |-> NoErrors]

NoAdm == [effectRan |-> FALSE, isLoading |-> TRUE, showCreateForm |-> FALSE,
          isCreating |-> FALSE, error |-> NoMessage, success |-> NoMessage,
          employees |-> "[]"]

NoReg == [open |-> FALSE, isSubmitting |-> FALSE, apiError |-> NoMessage,
          success |-> FALSE, errors |-> NoErrors, timer |-> FALSE,
          formData |-> NoForm]

\* no pure function called yet
NoCall == [fn |-> "", form |-> NoForm, isAuthenticated |-> FALSE,
           user |-> NoUser, roles |-> {}, redirectPath |-> "",
           error |-> [NoError EXCEPT !.status = NoResponse] @@ [carried |-> ""],
           token |-> NULL, href |-> "",
           outcome |-> [ok |-> FALSE, data |-> NoUser, error |-> NoError]]
NoResult == [errors |-> NoErrors, keys |-> {}, ok |-> FALSE, push |-> "",
             links |-> << >>, text |-> "", first |-> "", second |-> "",
             left |-> [token |-> NULL, user |-> NoUser,
                       isAuthenticated |-> FALSE, isLoading |-> FALSE]]

\* requests of components that live inside ProtectedRoute
GuardedKinds ==
  {"getProfile", "updateProfile", "changePassword", "createEmployee",
   "getEmployees", "getEmployees:create"}

NoHist == [redirects |-> 0, detections |-> 0, fetches |-> 0,
           absent |-> FALSE, failed |-> FALSE]

\* the record of a handler that made no request and got no response
(* --------------------------- booking page ------------------------------ *)
\* null for availability, and the response to checkAvailability(center,
\* date, service) by the selection it answers
NoAvailability == [center |-> 0, date |-> "", service |-> 0]
Centers == {1, 2}
Services == {1}
Dates == {"", "2026-01-01"}
Vehicles == {"car"}
Slot == "09:00"

\* a request of bookingAPI awaiting its response; chain says that
\* handleBookingSubmit is awaiting this checkAvailability
NoBkReq == [kind |-> "", center |-> 0, date |-> "", service |-> 0,
            chain |-> FALSE]

NoBk ==
  [mounted |-> FALSE, getVehicles |-> FALSE,
   centers |-> "[]", services |-> "[]", vehicles |-> "[]",
   selectedCenter |-> 0, selectedService |-> 0, selectedDate |-> "",
   availability |-> NoAvailability, selectedSlot |-> "", selectedVehicle |-> "",
   loading |-> FALSE, bookingLoading |-> FALSE, showSuccessModal |-> FALSE,
   isCheckingAuth |-> TRUE,
   ran |-> FALSE,
   authDeps |-> [isAuthenticated |-> FALSE, isLoading |-> FALSE],
   loadDeps |-> [isAuthenticated |-> FALSE, isCheckingAuth |-> TRUE],
   availDeps |-> [selectedCenter |-> 0, selectedService |-> 0,
                  selectedDate |-> "", isAuthenticated |-> FALSE,
                  isCheckingAuth |-> TRUE],
   reqs |-> {}, redirects |-> 0, overflow |-> FALSE,
   loadSession |-> [called |-> FALSE, isAuthenticated |-> FALSE,
                    isCheckingAuth |-> TRUE, hasUser |-> FALSE]]

\* what Home renders
BookingView(b, st) ==
  IF ~b.mounted THEN "unmounted"
  ELSE IF st.isLoading \/ b.isCheckingAuth THEN "checking"
  ELSE IF ~st.isAuthenticated THEN "redirecting"
  ELSE "page"

\* a call of a bookingAPI method: the request leaves
Send(b, r) ==
  [b EXCEPT !.reqs = @ \cup {r},
            !.overflow = @ \/ r \in b.reqs
                           \/ Cardinality(b.reqs) >= MaxInflight]

\* checkAvailability up to its await, with the selection of the render that
\* created it
checkAvailability(b, center, date, service, chain) ==
  IF center = 0 \/ service = 0 \/ date = ""
    THEN b
    ELSE Send([b EXCEPT !.loading = TRUE],
              [NoBkReq EXCEPT !.kind = "checkAvailability", !.center = center,
                              !.date = date, !.service = service,
                              !.chain = chain])

\* the authentication effect
AuthCheck(b, st) ==
  IF ~st.isLoading /\ st.user # NoUser
    THEN [b EXCEPT !.isCheckingAuth = FALSE,
                   !.redirects = IF ~st.isAuthenticated
                                   THEN (IF @ < MaxCount THEN @ + 1 ELSE @)
                                   ELSE @]
    ELSE b

\* the effect that loads centers, services and vehicles; r is the render it
\* closes over.  Where bookingAPI has no getVehicles the call throws after
\* the first two requests have left, and their answers are awaited by no one.
LoadData(b, r, st) ==
  IF ~st.isAuthenticated \/ r.isCheckingAuth \/ st.user = NoUser
    THEN b
    ELSE Send([b EXCEPT !.loadSession =
                          [called |-> TRUE,
                           isAuthenticated |-> st.isAuthenticated,
                           isCheckingAuth |-> r.isCheckingAuth,
                           hasUser |-> st.user # NoUser]],
              [NoBkReq EXCEPT !.kind = IF b.getVehicles THEN "loadData"
                                       ELSE "loadData:thrown"])

\* the availability effect
AvailabilityEffect(b, r, st) ==
  IF ~st.isAuthenticated \/ r.isCheckingAuth
    THEN b
    ELSE IF r.selectedCenter # 0 /\ r.selectedService # 0 /\ r.selectedDate # ""
      THEN checkAvailability(b, r.selectedCenter, r.selectedDate,
                             r.selectedService, FALSE)
      ELSE [b EXCEPT !.availability = NoAvailability]

\* the effects of one render r, each run if it never ran or a dependency
\* differs from its last run
EffectPass(r, st) ==
  LET authDeps == [isAuthenticated |-> st.isAuthenticated,
                   isLoading |-> st.isLoading]
      loadDeps == [isAuthenticated |-> st.isAuthenticated,
                   isCheckingAuth |-> r.isCheckingAuth]
      availDeps == [selectedCenter |-> r.selectedCenter,
                    selectedService |-> r.selectedService,
                    selectedDate |-> r.selectedDate,
                    isAuthenticated |-> st.isAuthenticated,
                    isCheckingAuth |-> r.isCheckingAuth]
      b1 == IF ~r.ran \/ r.authDeps # authDeps THEN AuthCheck(r, st) ELSE r
      b2 == IF ~r.ran \/ r.loadDeps # loadDeps THEN LoadData(b1, r, st) ELSE b1
      b3 == IF ~r.ran \/ r.availDeps # availDeps
              THEN AvailabilityEffect(b2, r, st) ELSE b2
  IN  [b3 EXCEPT !.ran = TRUE, !.authDeps = authDeps, !.loadDeps = loadDeps,
                 !.availDeps = availDeps]

\* React renders and runs effects until no effect changes state
BookingEffects(b, st) ==
  IF b.mounted THEN EffectPass(EffectPass(EffectPass(b, st), st), st) ELSE b

\* the fields of the page that the frame conditions speak of
Shot(b) ==
  [bookingLoading |-> b.bookingLoading, selectedSlot |-> b.selectedSlot,
   showSuccessModal |-> b.showSuccessModal, availability |-> b.availability,
   centers |-> b.centers, services |-> b.services, vehicles |-> b.vehicles,
   selection |-> [center |-> b.selectedCenter, date |-> b.selectedDate,
                  service |-> b.selectedService],
   pending |-> Cardinality(b.reqs)]

Did(name, eff) ==
  [act |-> name, kind |-> "", status |-> -1, ok |-> FALSE, owner |-> FALSE,
   reqToken |-> NULL, cap |-> NULL, data |-> NoUser,
   tokenBefore |-> token, userBefore |-> user, pending |-> Cardinality(inflight),
   mid |-> Store, wrapperEff |-> << >>, callerEff |-> eff,
   errIn |-> NoError, errOut |-> NoError,
   fetched |-> FALSE, ownFailure |-> FALSE,
   sent |-> FALSE, sentHeader |-> NULL, form |-> NoForm, keys |-> {}, flagBefore |-> FALSE,
   shown |-> "", failed |-> {}, request |-> NoBkReq, before |-> Shot(bk)]

Cur ==
  [st |-> Store, mounted |-> mounted, requiredRole |-> requiredRole,
   isInitialized |-> isInitialized, effectRan |-> effectRan,
   depToken |-> depToken, depUser |-> depUser,
   isUpdatingProfile |-> isUpdatingProfile, profileMessage |-> profileMessage,
   profileErrors |-> profileErrors, inflight |-> inflight,
   hrefPending |-> hrefPending, mounts |-> mounts, hist |-> hist,
   pw |-> pw, adm |-> adm, reg |-> reg, bk |-> bk]

Bump(n) == IF n < MaxCount THEN n + 1 ELSE MaxCount

\* the component that awaits the request was unmounted: its setState calls
\* do nothing, its store calls still run
Orphan(reqs, kinds) ==
  { IF r.kind \in kinds THEN [r EXCEPT !.owner = FALSE] ELSE r : r \in reqs }

\* the state after a handler: React re-renders from the new store, and a
\* ProfileManager that is no longer rendered loses its state
Commit(n, l) ==
  LET v == IF n.mounted
             THEN ProtectedRouteView(n.isInitialized, n.st.isAuthenticated,
                                     n.st.user, n.requiredRole)
             ELSE "unmounted"
      pmAlive == v = "children" /\ n.requiredRole = {}
      admAlive == v = "children" /\ n.requiredRole = {"ROLE_ADMIN"}
      gone == (IF pmAlive THEN {} ELSE {"updateProfile", "changePassword"})
                \cup (IF admAlive THEN {}
                    ELSE {"createEmployee", "getEmployees", "getEmployees:create"})
      cleared == mounted /\ n.mounted /\ token # NULL /\ n.st.token = NULL
                   /\ ~l.ownFailure
  IN  /\ token' = n.st.token
      /\ user' = n.st.user
      /\ isAuthenticated' = n.st.isAuthenticated
      /\ isLoading' = n.st.isLoading
      /\ mounted' = n.mounted
      /\ requiredRole' = n.requiredRole
      /\ isInitialized' = n.isInitialized
      /\ effectRan' = n.effectRan
      /\ depToken' = n.depToken
      /\ depUser' = n.depUser
      /\ isUpdatingProfile' = (pmAlive /\ n.isUpdatingProfile)
      /\ profileMessage' = (IF pmAlive THEN n.profileMessage ELSE NoMessage)
      /\ profileErrors' = (IF pmAlive THEN n.profileErrors ELSE {})
      /\ inflight' = Orphan(n.inflight, gone)
      /\ pw' = (IF pmAlive THEN n.pw ELSE NoPw)
      /\ adm' = (IF admAlive THEN n.adm ELSE NoAdm)
      /\ reg' = n.reg
      /\ bk' = BookingEffects(n.bk, n.st)
      /\ ~bk'.overflow
      /\ UNCHANGED << vin, vout, vdone >>
      /\ hrefPending' = n.hrefPending
      /\ mounts' = n.mounts
      /\ hist' = [n.hist EXCEPT
                    !.absent = @ /\ n.st.token = NULL,
                    !.detections = IF cleared THEN Bump(@) ELSE @]
      /\ last' = l

Init ==
  /\ token \in {NULL} \cup Tokens
  /\ user \in {NoUser} \cup Users
  /\ isAuthenticated = (token # NULL /\ user # NoUser)
  /\ isLoading = FALSE
  /\ mounted = FALSE
  /\ requiredRole = {}
  /\ isInitialized = FALSE
  /\ effectRan = FALSE
  /\ depToken = NULL
  /\ depUser = NoUser
  /\ isUpdatingProfile = FALSE
  /\ profileMessage = NoMessage
  /\ profileErrors = {}
  /\ inflight = {}
  /\ hrefPending = FALSE
  /\ mounts = 0
  /\ hist = NoHist
  /\ bk = NoBk
  /\ last = Did("init", << >>)
  /\ pw = NoPw
  /\ adm = NoAdm
  /\ reg = NoReg
  /\ vin = NoCall
  /\ vout = NoResult
  /\ vdone = FALSE

(* ------------------------------ actions -------------------------------- *)
\* a page wrapped in ProtectedRoute is rendered for the first time
Mount(req) ==
  /\ ~mounted
  /\ mounts < MaxMounts
  /\ Commit([Cur EXCEPT !.mounted = TRUE, !.requiredRole = req,
                        !.isInitialized = FALSE, !.effectRan = FALSE,
                        !.mounts = @ + 1,
                        !.reg = [NoReg EXCEPT !.timer = reg.timer],
                        !.inflight = Orphan(@, {"register"}),
                        !.hist = [NoHist EXCEPT
                                    !.absent = token = NULL,
                                    !.detections = IF token = NULL THEN 1 ELSE 0]],
            Did("Mount", << >>))

\* the page is left; requests in flight are not cancelled
Unmount ==
  /\ mounted
  /\ Commit([Cur EXCEPT !.mounted = FALSE, !.requiredRole = {},
                        !.isInitialized = FALSE, !.effectRan = FALSE,
                        !.depToken = NULL, !.depUser = NoUser,
                        !.inflight = Orphan(@, GuardedKinds),
                        !.hist = NoHist],
            Did("Unmount", << >>))

\* useEffect(initializeAuth, [token, user, ...]) up to its first await.  The
\* effect runs on mount and after every render whose token or user differs
\* from those of the previous run; it reads the values of that render, which
\* are the store's.  Its continuation after the await is in Resolve / Reject.
GuardEffect ==
  /\ mounted
  /\ ~effectRan \/ depToken # token \/ depUser # user
  /\ LET st1 == setLoading(Store, TRUE)
         base == [Cur EXCEPT !.effectRan = TRUE, !.depToken = token,
                             !.depUser = user]
         req == [kind |-> "getProfile", header |-> RequestInterceptor(st1),
                 cap |-> token, owner |-> TRUE]
     IN  IF token = NULL
           THEN Commit([base EXCEPT !.st = setLoading(st1, FALSE),
                                    !.hist.redirects = Bump(@)],
                       Did("GuardEffect",
                           <<"setLoading:true", "push:/login", "setLoading:false">>))
           ELSE IF NeedsProfileFetch(token, user)
             THEN /\ req \notin inflight
                  /\ Cardinality(inflight) < MaxInflight
                  /\ Commit([base EXCEPT !.st = st1,
                                         !.inflight = @ \cup {req},
                                         !.hist.fetches = Bump(@)],
                            [Did("GuardEffect", <<"setLoading:true", "getProfile">>)
                               EXCEPT !.fetched = TRUE, !.reqToken = req.header,
                                      !.cap = req.cap, !.sent = TRUE,
                                      !.sentHeader = req.header])
             ELSE Commit([base EXCEPT !.st = setLoading(st1, FALSE),
                                      !.isInitialized = TRUE],
                         Did("GuardEffect",
                             <<"setLoading:true", "setIsInitialized:true",
                               "setLoading:false">>))

\* Navigation.handleLogout; the button is rendered for isAuthenticated && user
HandleLogout ==
  /\ isAuthenticated /\ user # NoUser
  /\ Commit([Cur EXCEPT !.st = logout(Store)],
            Did("HandleLogout", <<"logout", "push:/login">>))

\* ProfileManager.handleProfileUpdate up to its await
HandleProfileUpdate(firstName, lastName) ==
  /\ View = "children" /\ requiredRole = {}
  /\ ~isUpdatingProfile
  /\ LET errors == validateProfile(firstName, lastName)
         form == [NoForm EXCEPT !.firstName = firstName, !.lastName = lastName]
         req == [kind |-> "updateProfile", header |-> RequestInterceptor(Store),
                 cap |-> token, owner |-> TRUE]
     IN  IF errors # {}
           THEN Commit([Cur EXCEPT !.profileMessage = NoMessage,
                                   !.profileErrors = errors],
                       [Did("HandleProfileUpdate", <<"setProfileErrors">>)
                          EXCEPT !.form = form, !.keys = errors])
           ELSE /\ req \notin inflight
                /\ Cardinality(inflight) < MaxInflight
                /\ Commit([Cur EXCEPT !.profileMessage = NoMessage,
                                      !.profileErrors = {},
                                      !.isUpdatingProfile = TRUE,
                                      !.inflight = @ \cup {req}],
                          [Did("HandleProfileUpdate", <<"updateProfile">>)
                             EXCEPT !.reqToken = req.header, !.cap = req.cap,
                                    !.sent = TRUE, !.sentHeader = req.header,
                                    !.form = form])

\* a continuation that logs in with the token the store holds on arrival
ProfileFetchedStoreToken(st, cap, userData) ==
  setLoading(login(st, st.token, userData), FALSE)

\* the guard's continuation after userApi.getProfile() resolved
ProfileFetched(st, cap, userData) == setLoading(login(st, cap, userData), FALSE)

\* the guard's catch block after userApi.getProfile() rejected
ProfileFetchFailed(st) == setLoading(logout(st), FALSE)

\* one run of initializeAuth from start to end, the profile request answered
\* by outcome; m is the store, the guard's isInitialized and whether
\* router.push("/login") was called.  This variant does not mark the guard
\* initialized when the user is already cached.
GuardPassCachedNotInitialized(m, outcome) ==
  LET st1 == setLoading(m.st, TRUE)
  IN  IF st1.token = NULL
        THEN [m EXCEPT !.st = setLoading(st1, FALSE), !.pushed = TRUE]
        ELSE IF NeedsProfileFetch(st1.token, st1.user)
          THEN IF outcome.ok
                 THEN [m EXCEPT !.st = ProfileFetched(st1, st1.token, outcome.data),
                                !.init = TRUE]
                 ELSE [m EXCEPT
                         !.st = ProfileFetchFailed(
                                  ResponseInterceptor(st1, outcome.error).st),
                         !.pushed = TRUE]
          ELSE [m EXCEPT !.st = setLoading(st1, FALSE)]

GuardPass(m, outcome) ==
  LET st1 == setLoading(m.st, TRUE)
  IN  IF st1.token = NULL
        THEN [m EXCEPT !.st = setLoading(st1, FALSE), !.pushed = TRUE]
        ELSE IF NeedsProfileFetch(st1.token, st1.user)
          THEN IF outcome.ok
                 THEN [m EXCEPT !.st = ProfileFetched(st1, st1.token, outcome.data),
                                !.init = TRUE]
                 ELSE [m EXCEPT
                         !.st = ProfileFetchFailed(
                                  ResponseInterceptor(st1, outcome.error).st),
                         !.pushed = TRUE]
          ELSE [m EXCEPT !.st = setLoading(st1, FALSE), !.init = TRUE]

\* one mount of the guard on store st: the effect runs, and runs once more
\* if it changed the token or the user it depends on
GuardMount(st, outcome) ==
  LET a == GuardPass([st |-> st, init |-> FALSE, pushed |-> FALSE], outcome)
  IN  IF a.st.token # st.token \/ a.st.user # st.user
        THEN GuardPass(a, outcome) ELSE a

\* where a mounted guard ends up for the role set it was given
Terminal(m, req) ==
  LET view == ProtectedRouteView(m.init, m.st.isAuthenticated, m.st.user, req)
  IN  CASE view = "children" -> "Authorized"
        [] view = "forbidden" -> "Forbidden"
        [] OTHER -> "Unauthenticated"

\* a continuation that discards the record the backend returned
ProfileSavedKeepsUser(st, updatedUser) == st

\* handleProfileUpdate's store call after userApi.updateProfile() resolved
ProfileSaved(st, updatedUser) == updateUser(st, updatedUser)

\* a 2xx response arrives: the awaiting handler continues
Resolve(r, userData) ==
  LET l == [Did("Response", << >>) EXCEPT
              !.kind = r.kind, !.status = 200, !.ok = TRUE, !.owner = r.owner,
              !.reqToken = r.header, !.cap = r.cap, !.data = userData]
      rest == [Cur EXCEPT !.inflight = @ \ {r}]
  IN  IF r.kind = "getProfile"
        THEN Commit([rest EXCEPT !.st = ProfileFetched(Store, r.cap, userData),
                                 !.isInitialized = @ \/ r.owner],
                    [l EXCEPT !.callerEff =
                       <<"login", "setIsInitialized:true", "setLoading:false">>])
        ELSE Commit([rest EXCEPT !.st = ProfileSaved(Store, userData),
                                 !.profileMessage =
                                    IF r.owner THEN ProfileUpdated ELSE @,
                                 !.isUpdatingProfile = @ /\ ~r.owner],
                    [l EXCEPT !.callerEff =
                       <<"updateUser", "setProfileMessage",
                         "setIsUpdatingProfile:false">>])

\* an error response, or none at all, arrives: the response interceptor runs
\* and rejects, then the awaiting handler's catch runs
Reject(r, error) ==
  LET w == ResponseInterceptor(Store, error)
      l == [Did("Response", << >>) EXCEPT
              !.kind = r.kind, !.status = error.status, !.owner = r.owner,
              !.reqToken = r.header, !.cap = r.cap, !.mid = w.st,
              !.wrapperEff = w.eff, !.errIn = error, !.errOut = w.err]
      rest == [Cur EXCEPT !.inflight = @ \ {r},
                          !.hrefPending = @ \/ w.href]
  IN  IF r.kind = "getProfile"
        THEN Commit([rest EXCEPT
                       !.st = ProfileFetchFailed(w.st),
                       !.hist = IF r.owner
                                  THEN [@ EXCEPT
                                          !.failed = TRUE,
                                          !.detections = Bump(@),
                                          !.redirects =
                                             IF w.href THEN Bump(Bump(@))
                                                       ELSE Bump(@)]
                                  ELSE @],
                    [l EXCEPT !.ownFailure = r.owner,
                              !.callerEff =
                                 <<"logout", "push:/login", "setLoading:false">>])
        ELSE Commit([rest EXCEPT
                       !.st = w.st,
                       !.profileMessage =
                          IF r.owner THEN handleApiError(w.err) ELSE @,
                       !.isUpdatingProfile = @ /\ ~r.owner],
                    [l EXCEPT !.shown = IF r.owner THEN handleApiError(w.err)
                                                   ELSE "",
                              !.callerEff =
                       <<"setProfileMessage", "setIsUpdatingProfile:false">>])

\* the backend answers a request of the guard or of the profile form with one
\* of the records in answers, or with an error
ResponseFrom(answers) ==
  \E r \in inflight :
    /\ r.kind \in {"getProfile", "updateProfile"}
    /\ \/ \E userData \in answers : Resolve(r, userData)
       \/ \E error \in ApiErrors : Reject(r, error)

Response == ResponseFrom(Users)

(* ------------------------------- forms --------------------------------- *)
PasswordChanged == "Password changed successfully!"
EmployeeCreated == "Employee created successfully!"

Request(kind) ==
  [kind |-> kind, header |-> RequestInterceptor(Store), cap |-> token,
   owner |-> TRUE]

CanSend(req) == req \notin inflight /\ Cardinality(inflight) < MaxInflight

\* ProfileManager.handlePasswordChange up to its await; the submit button is
\* disabled while isChangingPassword
HandlePasswordChange(currentPassword, newPassword, confirmPassword) ==
  /\ View = "children" /\ requiredRole = {}
  /\ ~pw.isChangingPassword
  /\ LET errors == validatePassword(currentPassword, newPassword, confirmPassword)
         form == [NoForm EXCEPT !.currentPassword = currentPassword,
                                !.password = newPassword,
                                !.confirmPassword = confirmPassword]
         req == Request("changePassword")
         l == [Did("HandlePasswordChange", <<"setPasswordErrors">>)
                 EXCEPT !.form = form, !.keys = DOMAIN errors,
                        !.flagBefore = pw.isChangingPassword]
     IN  IF DOMAIN errors # {}
           THEN Commit([Cur EXCEPT !.pw.passwordMessage = NoMessage,
                                   !.pw.passwordErrors = errors], l)
           ELSE /\ CanSend(req)
                /\ Commit([Cur EXCEPT !.pw.passwordMessage = NoMessage,
                                      !.pw.passwordErrors = errors,
                                      !.pw.isChangingPassword = TRUE,
                                      !.inflight = @ \cup {req}],
                          [l EXCEPT !.callerEff = <<"changePassword">>,
                                    !.reqToken = req.header, !.cap = req.cap,
                                    !.sent = TRUE, !.sentHeader = req.header])

\* the register page is opened from a page outside ProtectedRoute
OpenRegister ==
  /\ ~mounted /\ ~bk.mounted /\ ~reg.open
  /\ Commit([Cur EXCEPT !.reg = [NoReg EXCEPT !.open = TRUE, !.timer = reg.timer]],
            Did("OpenRegister", << >>))

\* a submit handler that ignores what validateForm returned
HandleSubmitNoReturn(formData) ==
  /\ reg.open /\ ~reg.isSubmitting /\ ~reg.success
  /\ LET errors == validateForm(formData)
         req == Request("register")
     IN  /\ CanSend(req)
         /\ Commit([Cur EXCEPT !.reg.apiError = NoMessage,
                               !.reg.errors = errors,
                               !.reg.isSubmitting = TRUE,
                               !.inflight = @ \cup {req}],
                   [Did("HandleSubmit", <<"setErrors", "register">>)
                      EXCEPT !.form = formData, !.keys = DOMAIN errors,
                             !.flagBefore = reg.isSubmitting,
                             !.reqToken = req.header, !.cap = req.cap,
                             !.sent = TRUE, !.sentHeader = req.header])

\* RegisterForm.handleSubmit up to its await; the form is replaced by the
\* success view and its button is disabled while isSubmitting
HandleSubmit(formData) ==
  /\ reg.open /\ ~reg.isSubmitting /\ ~reg.success
  /\ LET errors == validateForm(formData)
         req == Request("register")
         l == [Did("HandleSubmit", <<"setErrors">>)
                 EXCEPT !.form = formData, !.keys = DOMAIN errors,
                        !.flagBefore = reg.isSubmitting]
     IN  IF DOMAIN errors # {}
           THEN Commit([Cur EXCEPT !.reg.apiError = NoMessage,
                                   !.reg.formData = formData,
                                   !.reg.errors = errors], l)
           ELSE /\ CanSend(req)
                /\ Commit([Cur EXCEPT !.reg.apiError = NoMessage,
                                      !.reg.formData = formData,
                                      !.reg.errors = errors,
                                      !.reg.isSubmitting = TRUE,
                                      !.inflight = @ \cup {req}],
                          [l EXCEPT !.callerEff = <<"register">>,
                                    !.reqToken = req.header, !.cap = req.cap,
                                    !.sent = TRUE, !.sentHeader = req.header])

\* setTimeout(() => router.push("/login"), 2000) fires; nothing clears it
RegisterTimer ==
  /\ reg.timer
  /\ Commit([Cur EXCEPT !.reg = NoReg,
                        !.mounted = FALSE, !.requiredRole = {},
                        !.isInitialized = FALSE, !.effectRan = FALSE,
                        !.depToken = NULL, !.depUser = NoUser,
                        !.inflight = Orphan(@, GuardedKinds \cup {"register"}),
                        !.hist = NoHist],
            Did("RegisterTimer", <<"push:/login">>))

\* the admin page's useEffect(() => loadEmployees(), []) up to its await
AdminEffect ==
  /\ View = "children" /\ requiredRole = {"ROLE_ADMIN"}
  /\ ~adm.effectRan
  /\ LET req == Request("getEmployees")
     IN  /\ CanSend(req)
         /\ Commit([Cur EXCEPT !.adm.effectRan = TRUE, !.adm.isLoading = TRUE,
                               !.inflight = @ \cup {req}],
                   [Did("AdminEffect", <<"setIsLoading:true", "getEmployees">>)
                      EXCEPT !.reqToken = req.header, !.cap = req.cap,
                             !.sent = TRUE, !.sentHeader = req.header])

\* the "Add Employee" / "Cancel" button
ToggleCreateForm ==
  /\ View = "children" /\ requiredRole = {"ROLE_ADMIN"}
  /\ Commit([Cur EXCEPT !.adm.showCreateForm = ~@],
            Did("ToggleCreateForm", <<"setShowCreateForm">>))

\* type="email" of the browser: one "@", no space, a local part and a domain
\* of dot-separated non-empty labels
HtmlEmail(s) ==
  \E a \in 1..Len(s) :
    /\ s[a] = "@" /\ 1 < a /\ a < Len(s)
    /\ \A x \in 1..Len(s) : s[x] # " " /\ (s[x] = "@" => x = a)
    /\ s[a + 1] # "." /\ s[Len(s)] # "."
    /\ \A x \in (a + 1)..(Len(s) - 1) : ~(s[x] = "." /\ s[x + 1] = ".")

\* the form's own constraints: every input is required, the email input has
\* type="email"
BrowserAccepts(newEmployee) ==
  /\ newEmployee.firstName # << >>
  /\ newEmployee.lastName # << >>
  /\ newEmployee.email # << >> /\ HtmlEmail(newEmployee.email)
  /\ newEmployee.password # << >>

\* AdminDashboardContent.handleCreateEmployee up to its await; the submit
\* button is disabled while isCreating
HandleCreateEmployee(newEmployee) ==
  /\ View = "children" /\ requiredRole = {"ROLE_ADMIN"}
  /\ adm.showCreateForm /\ ~adm.isCreating
  /\ BrowserAccepts(newEmployee)
  /\ LET req == Request("createEmployee")
     IN  /\ CanSend(req)
         /\ Commit([Cur EXCEPT !.adm.isCreating = TRUE,
                               !.adm.error = NoMessage,
                               !.adm.success = NoMessage,
                               !.inflight = @ \cup {req}],
                   [Did("HandleCreateEmployee",
                        <<"setIsCreating:true", "createEmployee">>)
                      EXCEPT !.form = newEmployee, !.reqToken = req.header,
                             !.cap = req.cap, !.sent = TRUE,
                             !.sentHeader = req.header,
                             !.flagBefore = adm.isCreating])

\* handleSubmit after authApi.register() resolved; owner is whether the form
\* is still mounted
Registered(rg, owner) ==
  [rg EXCEPT !.success = @ \/ owner, !.isSubmitting = @ /\ ~owner,
             !.timer = TRUE]

\* a catch block that also empties the form
RegistrationFailedClearsForm(rg, message, owner) ==
  [rg EXCEPT !.apiError = IF owner THEN message ELSE @,
             !.isSubmitting = @ /\ ~owner,
             !.formData = NoForm]

\* handleSubmit's catch and finally
RegistrationFailed(rg, message, owner) ==
  [rg EXCEPT !.apiError = IF owner THEN message ELSE @,
             !.isSubmitting = @ /\ ~owner]

\* a 2xx response to a form's request arrives: the awaiting handler
\* continues; the setState calls of an unmounted component do nothing
FormResolve(r) ==
  LET l == [Did("Response", << >>) EXCEPT
              !.kind = r.kind, !.status = 200, !.ok = TRUE, !.owner = r.owner,
              !.reqToken = r.header, !.cap = r.cap]
      rest == [Cur EXCEPT !.inflight = @ \ {r}]
      again == [Request("getEmployees:create") EXCEPT !.owner = r.owner]
  IN  CASE r.kind = "register" ->
             Commit([rest EXCEPT !.reg = Registered(@, r.owner)],
                    [l EXCEPT !.form = reg.formData, !.flagBefore = reg.timer,
                              !.callerEff =
                       <<"setSuccess:true", "setTimeout", "setIsSubmitting:false">>])
        [] r.kind = "changePassword" ->
             Commit([rest EXCEPT
                       !.pw.passwordMessage = IF r.owner THEN PasswordChanged ELSE @,
                       !.pw.isChangingPassword = @ /\ ~r.owner],
                    [l EXCEPT !.callerEff =
                       <<"setPasswordMessage", "setIsChangingPassword:false">>])
        [] r.kind = "createEmployee" ->
             /\ again \notin rest.inflight
             /\ Commit([rest EXCEPT
                          !.adm.success = IF r.owner THEN EmployeeCreated ELSE @,
                          !.adm.showCreateForm = @ /\ ~r.owner,
                          !.adm.isLoading = @ \/ r.owner,
                          !.inflight = @ \cup {again}],
                       [l EXCEPT !.callerEff =
                          <<"setSuccess", "setShowCreateForm:false",
                            "setIsLoading:true", "getEmployees">>,
                                 !.sent = TRUE, !.sentHeader = again.header])
        [] OTHER ->
             Commit([rest EXCEPT
                       !.adm.employees = IF r.owner THEN "data" ELSE @,
                       !.adm.error = IF r.owner THEN NoMessage ELSE @,
                       !.adm.isLoading = @ /\ ~r.owner,
                       !.adm.isCreating =
                          @ /\ ~(r.owner /\ r.kind = "getEmployees:create")],
                    [l EXCEPT !.callerEff =
                       <<"setEmployees", "setError", "setIsLoading:false">>])

\* an error response, or none, to a form's request: the response interceptor
\* runs and rejects, then the handler's catch and finally run
FormReject(r, error) ==
  LET w == ResponseInterceptor(Store, error)
      l == [Did("Response", << >>) EXCEPT
              !.kind = r.kind, !.status = error.status, !.owner = r.owner,
              !.reqToken = r.header, !.cap = r.cap, !.mid = w.st,
              !.wrapperEff = w.eff, !.errIn = error, !.errOut = w.err,
              !.shown = IF r.owner THEN handleApiError(w.err) ELSE ""]
      rest == [Cur EXCEPT !.inflight = @ \ {r}, !.st = w.st,
                          !.hrefPending = @ \/ w.href]
      message == handleApiError(w.err)
  IN  CASE r.kind = "register" ->
             Commit([rest EXCEPT
                       !.reg = RegistrationFailed(@, message, r.owner)],
                    [l EXCEPT !.form = reg.formData, !.flagBefore = reg.timer,
                              !.callerEff =
                       <<"setApiError", "setIsSubmitting:false">>])
        [] r.kind = "changePassword" ->
             Commit([rest EXCEPT
                       !.pw.passwordMessage = IF r.owner THEN message ELSE @,
                       !.pw.isChangingPassword = @ /\ ~r.owner],
                    [l EXCEPT !.callerEff =
                       <<"setPasswordMessage", "setIsChangingPassword:false">>])
        [] r.kind = "createEmployee" ->
             Commit([rest EXCEPT
                       !.adm.error = IF r.owner THEN message ELSE @,
                       !.adm.isCreating = @ /\ ~r.owner],
                    [l EXCEPT !.callerEff =
                       <<"setError", "setIsCreating:false">>])
        [] OTHER ->
             Commit([rest EXCEPT
                       !.adm.error = IF r.owner THEN message ELSE @,
                       !.adm.isLoading = @ /\ ~r.owner,
                       !.adm.isCreating =
                          @ /\ ~(r.owner /\ r.kind = "getEmployees:create")],
                    [l EXCEPT !.callerEff =
                       <<"setError", "setIsLoading:false">>])

FormResponse ==
  \E r \in inflight :
    /\ r.kind \notin {"getProfile", "updateProfile"}
    /\ \/ FormResolve(r)
       \/ \E error \in ApiErrors : FormReject(r, error)

(* ------------------------- booking page actions ------------------------ *)
\* the selectors, the slot list and the form are rendered only by the last
\* return of Home
BookingPage == BookingView(bk, Store) = "page"

SetSelectedCenter(center) ==
  /\ BookingPage /\ center # bk.selectedCenter
  /\ Commit([Cur EXCEPT !.bk.selectedCenter = center],
            Did("SetSelectedCenter", << >>))

SetSelectedService(service) ==
  /\ BookingPage /\ service # bk.selectedService
  /\ Commit([Cur EXCEPT !.bk.selectedService = service],
            Did("SetSelectedService", << >>))

SetSelectedDate(date) ==
  /\ BookingPage /\ date # bk.selectedDate
  /\ Commit([Cur EXCEPT !.bk.selectedDate = date],
            Did("SetSelectedDate", << >>))

\* a slot of the displayed availability is clicked
HandleSlotSelect ==
  /\ BookingPage /\ bk.availability # NoAvailability /\ bk.selectedSlot = ""
  /\ Commit([Cur EXCEPT !.bk.selectedSlot = Slot],
            Did("HandleSlotSelect", << >>))

\* BookingForm's onCancel
CancelSlot ==
  /\ BookingPage /\ bk.selectedSlot # ""
  /\ Commit([Cur EXCEPT !.bk.selectedSlot = ""], Did("CancelSlot", << >>))

SetSelectedVehicle(vehicle) ==
  /\ BookingPage /\ bk.selectedSlot # "" /\ vehicle # bk.selectedVehicle
  /\ Commit([Cur EXCEPT !.bk.selectedVehicle = vehicle],
            Did("SetSelectedVehicle", << >>))

NoVehicle == "Please select a vehicle before booking."
BookingError == "Error creating booking."
AvailabilityError == "Error checking availability. Please try again."

\* handleBookingSubmit up to its first await
HandleBookingSubmit ==
  /\ BookingPage /\ bk.selectedSlot # ""
  /\ IF bk.selectedVehicle = ""
       THEN Commit(Cur, [Did("HandleBookingSubmit", <<"alert">>)
                          EXCEPT !.shown = NoVehicle])
       ELSE LET r == [NoBkReq EXCEPT !.kind = "createBooking",
                                     !.center = bk.selectedCenter,
                                     !.date = bk.selectedDate,
                                     !.service = bk.selectedService]
            IN  Commit([Cur EXCEPT
                          !.bk = Send([@ EXCEPT !.bookingLoading = TRUE], r)],
                       [Did("HandleBookingSubmit",
                            <<"setBookingLoading:true", "createBooking">>)
                          EXCEPT !.request = r])

HandleSuccessModalClose ==
  /\ bk.mounted /\ bk.showSuccessModal
  /\ Commit([Cur EXCEPT !.bk.showSuccessModal = FALSE],
            Did("HandleSuccessModalClose",
                <<"setShowSuccessModal:false", "push:/">>))

\* a loader that keeps whichever lists arrived
LoadSettledPartial(b, failed) ==
  [b EXCEPT !.centers = IF "getCenters" \in failed THEN @ ELSE "centers",
            !.services = IF "getServices" \in failed THEN @ ELSE "services",
            !.vehicles = IF "getVehicles" \in failed THEN @ ELSE "vehicles"]

\* loadData after Promise.all settled; failed are the calls that rejected
LoadSettled(b, failed) ==
  IF failed = {}
    THEN [b EXCEPT !.centers = "centers", !.services = "services",
                   !.vehicles = "vehicles"]
    ELSE b

\* checkAvailability after its await, and the finally of a
\* handleBookingSubmit that was awaiting it
AvailabilitySettled(b, r, ok) ==
  [b EXCEPT !.availability =
              IF ok THEN [center |-> r.center, date |-> r.date,
                          service |-> r.service]
                    ELSE @,
            !.loading = FALSE,
            !.bookingLoading = @ /\ ~r.chain]

\* a booking handler that leaves the slot selected
BookingCreatedKeepsSlot(b, r) ==
  LET b1 == [b EXCEPT !.showSuccessModal = TRUE]
  IN  IF r.center = 0 \/ r.service = 0 \/ r.date = ""
        THEN [b1 EXCEPT !.bookingLoading = FALSE]
        ELSE checkAvailability(b1, r.center, r.date, r.service, TRUE)

\* handleBookingSubmit after createBooking resolved, up to the await of
\* checkAvailability or, if that returns at once, to the end
BookingCreated(b, r) ==
  LET b1 == [b EXCEPT !.showSuccessModal = TRUE, !.selectedSlot = ""]
  IN  IF r.center = 0 \/ r.service = 0 \/ r.date = ""
        THEN [b1 EXCEPT !.bookingLoading = FALSE]
        ELSE checkAvailability(b1, r.center, r.date, r.service, TRUE)

\* a booking handler without its finally block
BookingFailedNoFinally(b) == b

\* handleBookingSubmit's catch and finally
BookingFailed(b) == [b EXCEPT !.bookingLoading = FALSE]

LoadCalls == {"getCenters", "getServices", "getVehicles"}

\* a response of the booking backend arrives
BookingResponse ==
  \E r \in bk.reqs :
    LET rest == [bk EXCEPT !.reqs = @ \ {r}]
        l == [Did("BookingResponse", << >>) EXCEPT !.kind = r.kind,
                                                   !.request = r]
    IN  CASE r.kind = "loadData" ->
               \E failed \in SUBSET LoadCalls :
                 Commit([Cur EXCEPT !.bk = LoadSettled(rest, failed)],
                        [l EXCEPT !.ok = failed = {}, !.failed = failed,
                                  !.callerEff = IF failed = {}
                                                  THEN <<"setCenters", "setServices",
                                                         "setVehicles">>
                                                  ELSE <<"console.error">>])
          [] r.kind = "loadData:thrown" ->
               Commit([Cur EXCEPT !.bk = rest], [l EXCEPT !.ok = TRUE])
          [] r.kind = "checkAvailability" ->
               \E ok \in BOOLEAN :
                 Commit([Cur EXCEPT !.bk = AvailabilitySettled(rest, r, ok)],
                        [l EXCEPT !.ok = ok,
                                  !.shown = IF ok THEN "" ELSE AvailabilityError,
                                  !.callerEff = IF ok THEN <<"setAvailability">>
                                                      ELSE <<"alert">>])
          [] OTHER ->
               \/ Commit([Cur EXCEPT !.bk = BookingCreated(rest, r)],
                         [l EXCEPT !.ok = TRUE,
                                   !.callerEff = <<"setShowSuccessModal:true",
                                                   "setSelectedSlot:null",
                                                   "checkAvailability">>])
               \/ Commit([Cur EXCEPT !.bk = BookingFailed(rest)],
                         [l EXCEPT !.shown = BookingError,
                                   !.callerEff = <<"alert">>])

\* the browser loads /login after window.location.href was assigned: the
\* page's memory is gone, the store is rehydrated from its persisted copy
PageReload ==
  /\ hrefPending
  /\ Commit([Cur EXCEPT !.hrefPending = FALSE, !.mounted = FALSE,
                        !.requiredRole = {}, !.isInitialized = FALSE,
                        !.effectRan = FALSE, !.depToken = NULL,
                        !.depUser = NoUser, !.inflight = {},
                        !.reg = NoReg,
                        !.st = setLoading(Store, FALSE), !.hist = NoHist],
            Did("PageReload", << >>))

Next ==
  \/ \E req \in RequiredRoleSets : Mount(req)
  \/ Unmount
  \/ GuardEffect
  \/ HandleLogout
  \/ \E firstName \in NameInputs, lastName \in NameInputs :
       HandleProfileUpdate(firstName, lastName)
  \/ Response
  \/ PageReload

Spec == Init /\ [][Next]_vars

(* ------------------- one visit with the forms -------------------------- *)
\* a registration form that satisfies every rule
ValidForm ==
  [NoForm EXCEPT !.firstName = <<"a", "b">>, !.lastName = <<"a", "b">>,
                 !.email = ValidEmail, !.password = StrongPassword,
                 !.confirmPassword = StrongPassword]

\* what a user submits to the registration form: a valid form, and forms
\* that break one rule each
RegInputs ==
  { ValidForm,
    [ValidForm EXCEPT !.firstName = <<"a">>],
    [ValidForm EXCEPT !.lastName = << >>],
    [ValidForm EXCEPT !.email = <<"a", "@", "a">>],
    [ValidForm EXCEPT !.password = Pad(6) \o <<"a", "A">>,
                      !.confirmPassword = Pad(6) \o <<"a", "A">>],
    [ValidForm EXCEPT !.password = <<"a", "A", "1">>,
                      !.confirmPassword = <<"a", "A", "1">>],
    [ValidForm EXCEPT !.confirmPassword = << >>],
    [ValidForm EXCEPT !.confirmPassword = <<"a", "A", "1">>],
    [ValidForm EXCEPT !.firstName = <<" ", "a", " ">>, !.lastName = <<" ">>],
    [ValidForm EXCEPT !.email = <<"a", " ", "@", "a", ".", "a">>],
    [ValidForm EXCEPT !.email = << >>, !.password = << >>,
                      !.confirmPassword = << >>],
    NoForm }

\* what a user submits to the password form; password holds newPassword
PwInputs ==
  LET valid == [NoForm EXCEPT !.currentPassword = StrongPassword \o <<"x">>,
                              !.password = StrongPassword,
                              !.confirmPassword = StrongPassword]
  IN  { valid,
        [valid EXCEPT !.currentPassword = << >>],
        [valid EXCEPT !.currentPassword = StrongPassword],
        [valid EXCEPT !.password = Pad(6) \o <<"a", "A">>,
                      !.confirmPassword = Pad(6) \o <<"a", "A">>],
        [valid EXCEPT !.confirmPassword = << >>],
        [valid EXCEPT !.confirmPassword = StrongPassword \o <<"x">>],
        [valid EXCEPT !.password = <<"a", "A", "1">>,
                      !.confirmPassword = <<"a", "A", "1">>],
        [valid EXCEPT !.currentPassword = <<"a">>, !.password = <<"a">>,
                      !.confirmPassword = << >>],
        NoForm }

\* what an admin types into the create-employee form
EmpInputs ==
  LET valid == [ValidForm EXCEPT !.confirmPassword = << >>]
  IN  { valid,
        [valid EXCEPT !.firstName = << >>],
        [valid EXCEPT !.firstName = <<" ">>],
        [valid EXCEPT !.lastName = <<"a">>],
        [valid EXCEPT !.email = <<"a", "@", "a">>],
        [valid EXCEPT !.email = <<"a", ".", "a">>],
        [valid EXCEPT !.password = <<"1">>] }

\* the pages of one visit that are wrapped in ProtectedRoute: /profile
\* (ProfileManager) and /admin (AdminOnly)
FormPages == { {}, {"ROLE_ADMIN"} }

\* the accounts of the visit: an admin and a customer
FormUsers ==
  { [role |-> "ROLE_ADMIN", firstName |-> "Ann"],
    [role |-> "ROLE_CUSTOMER", firstName |-> "Bob"] }

\* the visit starts on a public page, or on /profile or /admin just rendered
\* (the state Mount leaves), with the store an earlier visit persisted
FormsInit ==
  /\ token \in {NULL} \cup Tokens
  /\ user \in {NoUser} \cup FormUsers
  /\ isAuthenticated = (token # NULL /\ user # NoUser)
  /\ isLoading = FALSE
  /\ \/ mounted = FALSE /\ requiredRole = {} /\ mounts = 0
        /\ hist = NoHist
     \/ mounted = TRUE /\ requiredRole \in FormPages /\ mounts = 1
        /\ hist = [NoHist EXCEPT !.absent = token = NULL,
                                 !.detections = IF token = NULL THEN 1 ELSE 0]
  /\ isInitialized = FALSE
  /\ effectRan = FALSE
  /\ depToken = NULL
  /\ depUser = NoUser
  /\ isUpdatingProfile = FALSE
  /\ profileMessage = NoMessage
  /\ profileErrors = {}
  /\ inflight = {}
  /\ hrefPending = FALSE
  /\ pw = NoPw
  /\ adm = NoAdm
  /\ reg = NoReg
  /\ \/ bk = NoBk
     \/ /\ ~mounted
        /\ \E gv \in BOOLEAN :
             bk = BookingEffects([NoBk EXCEPT !.mounted = TRUE,
                                              !.getVehicles = gv], Store)
  /\ last = Did(IF mounted \/ bk.mounted THEN "Mount" ELSE "init", << >>)
  /\ vin = NoCall
  /\ vout = NoResult
  /\ vdone = FALSE

FormsNext ==
  \/ GuardEffect
  \/ HandleLogout
  \/ \E firstName \in NameInputs, lastName \in NameInputs :
       HandleProfileUpdate(firstName, lastName)
  \/ \E f \in PwInputs :
       HandlePasswordChange(f.currentPassword, f.password, f.confirmPassword)
  \/ OpenRegister
  \/ \E formData \in RegInputs : HandleSubmit(formData)
  \/ RegisterTimer
  \/ AdminEffect
  \/ ToggleCreateForm
  \/ \E newEmployee \in EmpInputs : HandleCreateEmployee(newEmployee)
  \/ ResponseFrom(FormUsers)
  \/ FormResponse
  \/ PageReload
  \/ \E center \in Centers : SetSelectedCenter(center)
  \/ \E service \in Services : SetSelectedService(service)
  \/ \E date \in Dates : SetSelectedDate(date)
  \/ HandleSlotSelect
  \/ CancelSlot
  \/ \E vehicle \in Vehicles : SetSelectedVehicle(vehicle)
  \/ HandleBookingSubmit
  \/ HandleSuccessModalClose
  \/ BookingResponse

FormsSpec == FormsInit /\ [][FormsNext]_vars

\* the same visit where a handler, an effect or a response that can run
\* does run
FairFormsSpec == FormsSpec /\ WF_vars(FormsNext)

(* ----------------------- the pure functions ---------------------------- *)
\* the sessions a component can read: isAuthenticated implies a user
Sessions ==
  { [isAuthenticated |-> ia, user |-> u] :
      ia \in BOOLEAN, u \in {NoUser} \cup Users } \
  { [isAuthenticated |-> TRUE, user |-> NoUser] }

\* registration inputs: every combination of a few values per field, then
\* each field over its whole set with the other fields valid
RegisterForms ==
  { [NoForm EXCEPT !.firstName = f, !.lastName = l, !.email = e,
                   !.password = p, !.confirmPassword = c] :
      f \in NameInputs, l \in NameInputs,
      e \in {<< >>, ValidEmail, <<"a", "@", "a">>, <<" ", "@", "a", ".", "a">>},
      p \in {<< >>, StrongPassword, Pad(6) \o <<"a", "A">>, <<"a", "A", "1">>},
      c \in {<< >>, StrongPassword, <<"a", "A", "1">>} }
  \cup { [ValidForm EXCEPT !.firstName = f, !.lastName = l] :
           f \in NameSeqs, l \in NameSeqs }
  \cup { [ValidForm EXCEPT !.email = e] : e \in EmailInputs }
  \cup UNION { { [ValidForm EXCEPT !.password = p, !.confirmPassword = c] :
                   c \in Variants(p) } : p \in Passwords }

ProfileForms ==
  { [NoForm EXCEPT !.firstName = f, !.lastName = l] :
      f \in NameSeqs, l \in NameSeqs }

\* password-change inputs; the field password holds newPassword
PasswordForms ==
  UNION { { [NoForm EXCEPT !.currentPassword = cur, !.password = p,
                           !.confirmPassword = c] :
              cur \in Variants(p) \cup {StrongPassword}, c \in Variants(p) } :
          p \in Passwords }

\* the stores a guard can be mounted on, and the ways its request can end
GuardStores ==
  { [token |-> NULL, user |-> NoUser, isAuthenticated |-> FALSE] }
  \cup { [token |-> t, user |-> NoUser, isAuthenticated |-> FALSE] : t \in Tokens }
  \cup { [token |-> t, user |-> u, isAuthenticated |-> TRUE] :
           t \in Tokens, u \in Users }
FetchOutcomes ==
  { [ok |-> TRUE, data |-> u, error |-> NoError] : u \in Users }
  \cup { [ok |-> FALSE, data |-> NoUser, error |-> e] : e \in ApiErrors }

PureCalls ==
  { [NoCall EXCEPT !.fn = "validateForm", !.form = f] : f \in RegisterForms }
  \cup { [NoCall EXCEPT !.fn = "validateProfile", !.form = f] : f \in ProfileForms }
  \cup { [NoCall EXCEPT !.fn = "validatePassword", !.form = f] : f \in PasswordForms }
  \cup { [NoCall EXCEPT !.fn = "filteredLinks",
                        !.isAuthenticated = ss.isAuthenticated, !.user = ss.user] :
           ss \in Sessions }
  \cup { [NoCall EXCEPT !.fn = "requireAuth",
                        !.isAuthenticated = ss.isAuthenticated, !.user = ss.user,
                        !.redirectPath = path] :
           ss \in Sessions, path \in Paths }
  \cup { [NoCall EXCEPT !.fn = "requireRole",
                        !.isAuthenticated = ss.isAuthenticated, !.user = ss.user,
                        !.roles = roles, !.redirectPath = path] :
           ss \in Sessions, roles \in RequiredRoleSets, path \in Paths }
  \cup { [NoCall EXCEPT !.fn = "handleApiError", !.error = error] :
           error \in ErrorValues }
  \cup { [NoCall EXCEPT !.fn = "ProtectedRoute", !.token = gs.token,
                        !.isAuthenticated = gs.isAuthenticated, !.user = gs.user,
                        !.roles = roles, !.outcome = o] :
           gs \in GuardStores, roles \in RequiredRoleSets, o \in FetchOutcomes }
  \cup { [NoCall EXCEPT !.fn = "visit", !.token = gs.token,
                        !.isAuthenticated = gs.isAuthenticated, !.user = gs.user,
                        !.href = href] :
           gs \in { g \in GuardStores : g.token = NULL \/ g.user # NoUser },
           href \in GuardedRoutes }

\* no component is mounted; one call with its arguments is about to be made
PureInit ==
  /\ token = NULL /\ user = NoUser /\ isAuthenticated = FALSE
  /\ isLoading = FALSE
  /\ mounted = FALSE
  /\ requiredRole = {}
  /\ isInitialized = FALSE
  /\ effectRan = FALSE
  /\ depToken = NULL
  /\ depUser = NoUser
  /\ isUpdatingProfile = FALSE
  /\ profileMessage = NoMessage
  /\ profileErrors = {}
  /\ inflight = {}
  /\ hrefPending = FALSE
  /\ mounts = 0
  /\ hist = NoHist
  /\ bk = NoBk
  /\ last = Did("init", << >>)
  /\ pw = NoPw
  /\ adm = NoAdm
  /\ reg = NoReg
  /\ vin \in PureCalls
  /\ vout = NoResult
  /\ vdone = FALSE

Returns(result) ==
  /\ ~vdone
  /\ vout' = result
  /\ vdone' = TRUE
  /\ UNCHANGED << token, user, isAuthenticated, isLoading, mounted,
                  requiredRole, isInitialized, effectRan, depToken, depUser,
                  isUpdatingProfile, profileMessage, profileErrors, inflight,
                  hrefPending, mounts, hist, last, pw, adm, reg, bk, vin >>

Mapping(errors) ==
  [NoResult EXCEPT !.errors = errors, !.keys = DOMAIN errors,
                   !.ok = DOMAIN errors = {}]

CallValidateForm ==
  /\ vin.fn = "validateForm"
  /\ Returns(Mapping(validateForm(vin.form)))

CallValidateProfile ==
  /\ vin.fn = "validateProfile"
  /\ LET errors == validateProfile(vin.form.firstName, vin.form.lastName)
     IN  Returns([NoResult EXCEPT !.keys = errors, !.ok = errors = {}])

CallValidatePassword ==
  /\ vin.fn = "validatePassword"
  /\ Returns(Mapping(validatePassword(vin.form.currentPassword,
                                      vin.form.password,
                                      vin.form.confirmPassword)))

CallFilteredLinks ==
  /\ vin.fn = "filteredLinks"
  /\ Returns([NoResult EXCEPT
                !.links = filteredLinks(vin.isAuthenticated, vin.user)])

CallRequireAuth ==
  /\ vin.fn = "requireAuth"
  /\ LET res == requireAuth(vin.isAuthenticated, vin.redirectPath)
     IN  Returns([NoResult EXCEPT !.ok = res.ok, !.push = res.push])

CallRequireRole ==
  /\ vin.fn = "requireRole"
  /\ LET res == requireRole(vin.isAuthenticated, vin.user, vin.roles,
                            vin.redirectPath)
     IN  Returns([NoResult EXCEPT !.ok = res.ok, !.push = res.push])

CallHandleApiError ==
  /\ vin.fn = "handleApiError"
  /\ Returns([NoResult EXCEPT !.text = handleApiError(vin.error)])

\* ProtectedRoute mounted, left to settle, unmounted, and mounted again on
\* the store it left
CallProtectedRoute ==
  /\ vin.fn = "ProtectedRoute"
  /\ LET st == [token |-> vin.token, user |-> vin.user,
                isAuthenticated |-> vin.isAuthenticated, isLoading |-> FALSE]
         m1 == GuardMount(st, vin.outcome)
         m2 == GuardMount(m1.st, vin.outcome)
     IN  Returns([NoResult EXCEPT !.first = Terminal(m1, vin.roles),
                                  !.second = Terminal(m2, vin.roles),
                                  !.left = m1.st])

\* the page at href opened with no session or with one whose user is cached
CallVisit ==
  /\ vin.fn = "visit"
  /\ LET st == [token |-> vin.token, user |-> vin.user,
                isAuthenticated |-> vin.isAuthenticated, isLoading |-> FALSE]
         m == GuardMount(st, vin.outcome)
     IN  Returns([NoResult EXCEPT !.first = Terminal(m, RouteGuard(vin.href)),
                                  !.links = filteredLinks(vin.isAuthenticated,
                                                          vin.user),
                                  !.left = m.st])

PureNext ==
  \/ CallValidateForm
  \/ CallValidateProfile
  \/ CallValidatePassword
  \/ CallFilteredLinks
  \/ CallRequireAuth
  \/ CallRequireRole
  \/ CallHandleApiError
  \/ CallProtectedRoute
  \/ CallVisit

PureSpec == PureInit /\ [][PureNext]_vars

(* ------------------------------ claims --------------------------------- *)
RoleMatches(req, u) == req = {} \/ u.role \in req

Has(eff, e) == \E i \in DOMAIN eff : eff[i] = e

Redirected(l) == Has(l.callerEff, "push:/login") \/ Has(l.wrapperEff, "href:/login")

RoleView == IF RoleMatches(requiredRole, user) THEN "children" ELSE "forbidden"

\* C1: whatever the interleaving of guard initialization, profile-fetch
\* responses, logout, 401 handling and profile updates, the guard renders its
\* children only when token and user are present, isAuthenticated is true and
\* the required-role set is empty or contains the user's role.
C1_ChildrenOnlyWhenAuthorized ==
  View = "children" =>
    /\ token # NULL
    /\ user # NoUser
    /\ isAuthenticated
    /\ RoleMatches(requiredRole, user)

C1_Witness ==
  /\ View = "children"
  /\ requiredRole = {"ROLE_EMPLOYEE", "ROLE_ADMIN"}
  /\ last.act = "Response" /\ last.kind = "getProfile" /\ last.ok

\* C2: a response that resolves under a store token other than the one its
\* request was issued with changes neither token nor user (a profile fetch
\* that resolves after logout() leaves the session cleared).
C2_StaleResponseNotApplied ==
  (last.act = "Response" /\ last.ok /\ last.reqToken # last.tokenBefore) =>
    token = last.tokenBefore /\ user = last.userBefore

\* C3: with a token and a user, and the effect run for them, the guard shows
\* its children iff the required-role set is empty or holds the user's role
\* exactly, and the 403 view otherwise; the handler that led to the 403 view
\* fired no redirect.
C3_RoleDecidesTerminalView ==
  /\ (mounted /\ token # NULL /\ user # NoUser /\ effectRan
        /\ depToken = token /\ depUser = user) => View = RoleView
  /\ View = "forbidden" => ~Redirected(last)

C3_Witness ==
  /\ View = "forbidden"
  /\ user.role = "ROLE_CUSTOMER"
  /\ requiredRole = {"ROLE_ADMIN"}
  /\ last.act = "GuardEffect"
  /\ hist.redirects = 0

\* C4: a mount that began without a token, the token absent ever since, shows
\* the loading indicator only, has issued no profile fetch, and has fired
\* exactly one redirect to /login once its effect has run.
C4_NoTokenMountRedirectsOnce ==
  (mounted /\ hist.absent) =>
    /\ View = "loading"
    /\ hist.fetches = 0
    /\ hist.redirects = IF effectRan THEN 1 ELSE 0

\* C5: in one mount the guard and the wrapper together fire at most one
\* redirect to /login per unauthenticated detection (token found absent at
\* mount, token cleared by someone else, or the mount's profile fetch failed).
C5_OneRedirectPerDetection == mounted => hist.redirects <= hist.detections

\* C6: an effect run issues the profile fetch exactly when the token is
\* present and no user is cached; a fetch that succeeds stores the fetched
\* user with the request's token through login, and the guard that awaited it
\* then shows the view the roles decide.
C6_FetchIffTokenWithoutUser ==
  /\ last.act = "GuardEffect" =>
       (last.fetched <=> (last.tokenBefore # NULL /\ last.userBefore = NoUser))
  /\ (last.act = "Response" /\ last.kind = "getProfile" /\ last.ok) =>
       /\ token = last.cap
       /\ user = last.data
       /\ isAuthenticated
       /\ last.owner => View = RoleView

C6_Witness ==
  /\ last.act = "Response" /\ last.kind = "getProfile" /\ last.ok /\ last.owner
  /\ requiredRole = {}
  /\ user.role = "ROLE_CUSTOMER"
  /\ View = "children"

\* C7: a failed profile fetch of the guard clears token and user through
\* logout() and redirects to /login, and the mount whose fetch failed never
\* renders its children afterwards.
C7_FetchFailureEndsUnauthenticated ==
  /\ (last.act = "Response" /\ last.kind = "getProfile" /\ ~last.ok) =>
       /\ token = NULL /\ user = NoUser
       /\ Has(last.callerEff, "logout")
       /\ Has(last.callerEff, "push:/login")
  /\ (mounted /\ hist.failed) => View # "children"

\* C8: after a 401 on any call the store holds neither token nor user, the
\* wrapper has called logout() and then set window.location.href to /login,
\* and the caller's catch ran with the error the wrapper received.
C8_On401LogoutThenHardRedirect ==
  (last.act = "Response" /\ last.status = 401) =>
    /\ token = NULL /\ user = NoUser
    /\ last.mid.token = NULL /\ last.mid.user = NoUser
    /\ hrefPending
    /\ \E i, j \in DOMAIN last.wrapperEff :
         /\ i < j
         /\ last.wrapperEff[i] = "logout"
         /\ last.wrapperEff[j] = "href:/login"
    /\ last.errOut = last.errIn
    /\ last.callerEff # << >>

C8_Witness ==
  /\ last.act = "Response" /\ last.status = 401
  /\ last.kind = "updateProfile"
  /\ last.tokenBefore # NULL /\ last.userBefore # NoUser

\* C9: on a 403 the wrapper leaves token and user as they were, sets no
\* redirect, and rejects with the error it received.
C9_On403WrapperKeepsSession ==
  (last.act = "Response" /\ last.status = 403) =>
    /\ last.mid.token = last.tokenBefore
    /\ last.mid.user = last.userBefore
    /\ ~Has(last.wrapperEff, "href:/login")
    /\ ~Has(last.wrapperEff, "logout")
    /\ last.errOut = last.errIn

C9_Witness ==
  /\ last.act = "Response" /\ last.status = 403
  /\ last.kind = "updateProfile"
  /\ token # NULL /\ user # NoUser
  /\ ~hrefPending

\* C10: a request that got no response is not sent again, and token and user
\* are what they were before, whoever the caller is.
C10_NoResponseNoRetryNoChange ==
  (last.act = "Response" /\ last.status = NoResponse) =>
    /\ Cardinality(inflight) < last.pending
    /\ token = last.tokenBefore
    /\ user = last.userBefore

\* the session invariant on one store value
Consistent(st) ==
  st.isAuthenticated = (st.token # NULL /\ st.user # NoUser)

\* C12: after every handler that mutates the session (login by the guard's
\* fetch, logout by the wrapper, the guard's catch or the navigation bar,
\* updateUser by a profile update), isAuthenticated is exactly "token and user
\* are both present"; the store between the wrapper's logout and the caller's
\* catch satisfies it too.
C12_SessionInvariant ==
  /\ Consistent(Store)
  /\ Consistent(last.mid)
  /\ isAuthenticated => (token # NULL /\ user # NoUser)

\* a profile fetch sent before a logout resolved after it and logged in again
C12_Witness ==
  /\ last.act = "Response" /\ last.kind = "getProfile" /\ last.ok
  /\ last.tokenBefore = NULL /\ last.userBefore = NoUser
  /\ isAuthenticated /\ token = last.cap

\* C13: a profile update that succeeded leaves the token as it was and makes
\* the cached user the record the backend returned; one that failed with
\* anything but 401 leaves token and user as they were.
C13_ProfileUpdateFrame ==
  (last.act = "Response" /\ last.kind = "updateProfile") =>
    /\ last.ok => (token = last.tokenBefore /\ user = last.data)
    /\ (~last.ok /\ last.status # 401) =>
         (token = last.tokenBefore /\ user = last.userBefore)

C13_Witness ==
  /\ last.act = "Response" /\ last.kind = "updateProfile" /\ last.ok
  /\ last.owner /\ last.tokenBefore # NULL
  /\ last.userBefore # NoUser /\ last.data # last.userBefore
  /\ user = last.data /\ profileMessage = ProfileUpdated

\* the strength rule, stated on the characters of s
Strong(s) ==
  /\ Len(s) >= 8
  /\ \E i \in 1..Len(s) : IsLower(s[i])
  /\ \E i \in 1..Len(s) : IsUpper(s[i])
  /\ \E i \in 1..Len(s) : IsDigit(s[i])

StrengthMessages ==
  { "Password is required", "New password is required",
    "Password must be at least 8 characters",
    "Password must contain at least one uppercase letter, one lowercase letter, and one number" }

StrengthError(errors, field) ==
  field \in DOMAIN errors /\ errors[field] \in StrengthMessages

\* C14: registration records no strength error for a password iff it has at
\* least 8 characters with a lowercase letter, an uppercase letter and a
\* digit (letters and digits being a-z, A-Z, 0-9, as the pattern reads them);
\* so does password change whenever the new password differs from the current
\* one, and when they are equal the newPassword entry is there anyway.
C14_StrengthRule ==
  /\ (vdone /\ vin.fn = "validateForm") =>
       /\ ~StrengthError(vout.errors, "password") <=> Strong(vin.form.password)
       /\ "password" \in vout.keys <=> StrengthError(vout.errors, "password")
  /\ (vdone /\ vin.fn = "validatePassword") =>
       /\ vin.form.currentPassword # vin.form.password =>
            (~StrengthError(vout.errors, "newPassword")
               <=> Strong(vin.form.password))
       /\ "newPassword" \notin vout.keys => Strong(vin.form.password)

\* exactly 8 characters of all three kinds are accepted by password change
C14_Witness ==
  /\ vdone /\ vin.fn = "validatePassword"
  /\ Len(vin.form.password) = 8 /\ Strong(vin.form.password)
  /\ vin.form.currentPassword # << >>
  /\ vin.form.currentPassword # vin.form.password
  /\ "newPassword" \notin vout.keys

\* C15: password change validation records a confirmPassword entry when the
\* confirmation differs from the new password, a newPassword entry when the
\* new password equals the current one (however strong it is), and a
\* currentPassword entry when the current password is empty.
C15_PasswordChangeEntries ==
  (vdone /\ vin.fn = "validatePassword") =>
    /\ vin.form.password # vin.form.confirmPassword =>
         "confirmPassword" \in vout.keys
    /\ vin.form.currentPassword = vin.form.password =>
         "newPassword" \in vout.keys
    /\ vin.form.currentPassword = << >> => "currentPassword" \in vout.keys

\* a strong new password, confirmed, but equal to the current one
C15_Witness ==
  /\ vdone /\ vin.fn = "validatePassword"
  /\ Strong(vin.form.password)
  /\ vin.form.currentPassword = vin.form.password
  /\ vin.form.confirmPassword = vin.form.password
  /\ vout.keys = {"newPassword"}

\* the number of characters from the first to the last non-space one
TrimmedLen(s) ==
  LET solid == { i \in 1..Len(s) : s[i] # " " }
  IN  IF solid = {} THEN 0
      ELSE (CHOOSE i \in solid : \A j \in solid : j <= i)
           - (CHOOSE i \in solid : \A j \in solid : i <= j) + 1

\* C16: registration and profile update record firstName (lastName) iff the
\* field has fewer than 2 characters once leading and trailing spaces are
\* removed.
C16_NameRule ==
  (vdone /\ vin.fn \in {"validateForm", "validateProfile"}) =>
    /\ "firstName" \in vout.keys <=> TrimmedLen(vin.form.firstName) < 2
    /\ "lastName" \in vout.keys <=> TrimmedLen(vin.form.lastName) < 2

\* three characters that trim to one, next to a valid last name
C16_Witness ==
  /\ vdone /\ vin.fn = "validateForm"
  /\ Len(vin.form.firstName) = 3 /\ TrimmedLen(vin.form.firstName) = 1
  /\ TrimmedLen(vin.form.lastName) = 2
  /\ vout.keys = {"firstName"}

Names(links) == [i \in 1..Len(links) |-> links[i].name]

\* C19: the bar shows, in the order of the fixed list, exactly the links whose
\* role set is empty or, for an authenticated user, contains the user's role.
C19_NavigationFilter ==
  (vdone /\ vin.fn = "filteredLinks") =>
    LET shown(link) ==
          link.roles = {} \/ (vin.isAuthenticated /\ vin.user.role \in link.roles)
        role == vin.user.role
    IN  /\ vout.links = SelectSeq(AllLinks, shown)
        /\ ~vin.isAuthenticated => Names(vout.links) = <<"Home">>
        /\ (vin.isAuthenticated /\ role = "ROLE_CUSTOMER") =>
             Names(vout.links) = <<"Home", "Profile", "Customer Dashboard">>
        /\ (vin.isAuthenticated /\ role = "ROLE_EMPLOYEE") =>
             Names(vout.links) = <<"Home", "Profile", "Employee Dashboard">>
        /\ (vin.isAuthenticated /\ role = "ROLE_ADMIN") =>
             Names(vout.links) =
               <<"Home", "Profile", "Employee Dashboard", "Admin Dashboard">>

C19_Witness ==
  /\ vdone /\ vin.fn = "filteredLinks"
  /\ vin.isAuthenticated /\ vin.user.role = "ROLE_ADMIN"
  /\ Len(vout.links) = 4

\* C20: requireAuth and requireRole pass exactly when the Route Guard would
\* render children for the same session and role set (none for requireAuth);
\* a passing check pushes nothing, a failing one pushes the caller's target.
C20_ImperativeChecksMatchGuard ==
  (vdone /\ vin.fn \in {"requireAuth", "requireRole"}) =>
    LET pass == ProtectedRouteView(TRUE, vin.isAuthenticated, vin.user,
                                   vin.roles) = "children"
    IN  /\ vout.ok <=> pass
        /\ vout.ok => vout.push = ""
        /\ ~vout.ok => vout.push = vin.redirectPath

\* C11: the header of every request a handler sends is the token the Session
\* Store holds when it is sent: none when the store holds none (after a
\* logout), the store's token otherwise (after a login).
C11_HeaderIsStoreToken ==
  last.sent =>
    /\ last.sentHeader = last.tokenBefore
    /\ last.sentHeader = token
    /\ (last.sentHeader = NULL) <=> (token = NULL)

\* the admin logged out while createEmployee was in flight; its continuation
\* then sent getEmployees with no header
C11_Witness ==
  /\ last.act = "Response" /\ last.kind = "createEmployee" /\ last.ok
  /\ ~last.owner /\ last.reqToken # NULL
  /\ last.sent /\ last.sentHeader = NULL /\ token = NULL

\* the email rule: a non-space character before an "@", then at least one
\* non-space character, a ".", and a non-space character
EmailShape(s) ==
  \E a \in 2..Len(s), d \in 2..Len(s) :
    /\ s[a] = "@" /\ s[d] = "." /\ a + 2 <= d /\ d < Len(s)
    /\ s[a - 1] # " " /\ s[d + 1] # " "
    /\ \A x \in (a + 1)..(d - 1) : s[x] # " "

NamesOk(f) == TrimmedLen(f.firstName) >= 2 /\ TrimmedLen(f.lastName) >= 2

\* every rule of the form the handler belongs to
Rules(act, f) ==
  CASE act = "HandleSubmit" ->
         /\ NamesOk(f) /\ EmailShape(f.email) /\ Strong(f.password)
         /\ f.confirmPassword # << >> /\ f.confirmPassword = f.password
    [] act = "HandleProfileUpdate" -> NamesOk(f)
    [] OTHER ->
         /\ f.currentPassword # << >> /\ Strong(f.password)
         /\ f.confirmPassword = f.password /\ f.currentPassword # f.password

InProgress(act) ==
  CASE act = "HandleSubmit" -> reg.isSubmitting
    [] act = "HandleProfileUpdate" -> isUpdatingProfile
    [] OTHER -> pw.isChangingPassword

\* C17: on a submit of the registration, profile or password form the
\* validator's mapping is empty iff every rule of the form holds; with a
\* non-empty mapping no request is sent and the in-progress flag and the
\* Session Store are what they were, with an empty one the request is sent.
C17_InvalidSubmitBlocked ==
  (last.act \in {"HandleSubmit", "HandleProfileUpdate", "HandlePasswordChange"}) =>
    /\ (last.keys = {}) <=> Rules(last.act, last.form)
    /\ (last.keys = {}) <=> last.sent
    /\ last.keys # {} =>
         /\ Cardinality(inflight) = last.pending
         /\ InProgress(last.act) = last.flagBefore
         /\ Store = last.mid

\* a registration whose only fault is the confirmation is blocked
C17_Witness ==
  /\ last.act = "HandleSubmit"
  /\ last.keys = {"confirmPassword"}
  /\ Strong(last.form.password)
  /\ ~last.sent /\ inflight = {} /\ ~reg.isSubmitting
  /\ reg.errors # NoErrors

\* C18: a create-employee request is sent only for a form whose names trim to
\* at least 2 characters, whose email has the local@domain.tld shape and whose
\* password is strong.
C18_CreateEmployeeValidated ==
  (last.act = "HandleCreateEmployee" /\ last.sent) =>
    /\ NamesOk(last.form)
    /\ EmailShape(last.form.email)
    /\ Strong(last.form.password)

\* C22: handleApiError returns the message the backend put in the response
\* if there is one, otherwise the transport's message if there is one,
\* otherwise the fixed fallback string.
C22_ErrorNormalization ==
  (vdone /\ vin.fn = "handleApiError") =>
    LET transport == IF vin.error.isAxiosError THEN vin.error.message ELSE ""
    IN  vout.text = (IF vin.error.carried # "" THEN vin.error.carried
                     ELSE IF transport # "" THEN transport
                     ELSE Unexpected)

\* C23: a guard mounted again on the store its first mount left, with the
\* same required roles and the same answer to the profile request, ends in
\* the terminal state the first mount ended in.
C23_GuardIdempotent ==
  (vdone /\ vin.fn = "ProtectedRoute") =>
    /\ vout.second = vout.first
    /\ vout.first \in {"Authorized", "Forbidden", "Unauthenticated"}

\* the first mount fetched the profile and wrote it to the store, and the
\* second mount found it cached
C23_Witness ==
  /\ vdone /\ vin.fn = "ProtectedRoute"
  /\ vin.token # NULL /\ vin.user = NoUser /\ vin.outcome.ok
  /\ vout.left.user = vin.outcome.data
  /\ vout.first = "Forbidden" /\ vout.second = "Forbidden"

\* the roles the specification states for each protected route
StatedRoles(href) ==
  CASE href = "/admin" -> {"ROLE_ADMIN"}
    [] href = "/employee" -> {"ROLE_EMPLOYEE", "ROLE_ADMIN"}
    [] OTHER -> Roles

Hrefs(links) == { links[i].href : i \in DOMAIN links }

\* C24: the guard of /admin, /employee and /profile authorizes exactly the
\* roles stated for the route, and every such link the navigation shows to a
\* user leads to a guard that authorizes that user.
C24_GuardsMatchRolesAndLinks ==
  (vdone /\ vin.fn = "visit") =>
    /\ (vout.first = "Authorized") <=>
         (vin.isAuthenticated /\ vin.user.role \in StatedRoles(vin.href))
    /\ vin.isAuthenticated => vout.first \in {"Authorized", "Forbidden"}
    /\ vin.href \in Hrefs(vout.links) => vout.first = "Authorized"

\* an employee follows the Employee Dashboard link and is let in
C24_Witness ==
  /\ vdone /\ vin.fn = "visit"
  /\ vin.user.role = "ROLE_EMPLOYEE" /\ vin.href = "/employee"
  /\ vin.href \in Hrefs(vout.links)
  /\ vout.first = "Authorized"

\* C25: on the booking page, once the session has finished loading with no
\* authenticated user, a redirect to /login is eventually issued and the
\* page leaves its "Checking authentication" state.
C25_UnauthenticatedLeavesChecking ==
  (bk.mounted /\ ~isLoading /\ ~(isAuthenticated /\ user # NoUser))
    ~> (bk.redirects > 0 /\ ~bk.isCheckingAuth)

\* the selection as checkAvailability would send it
Selection(b) ==
  [center |-> b.selectedCenter, date |-> b.selectedDate,
   service |-> b.selectedService]

AvailabilityPending(b) == \E r \in b.reqs : r.kind = "checkAvailability"

\* C26: on the booking page, with no availability request in flight, the
\* stored availability is null or answers the current selection, and it is
\* null whenever the center, the date or the service is unset.
C26_AvailabilityIsCurrent ==
  (bk.mounted /\ ~AvailabilityPending(bk)) =>
    /\ bk.availability \in {NoAvailability, Selection(bk)}
    /\ (bk.selectedCenter = 0 \/ bk.selectedService = 0 \/ bk.selectedDate = "")
         => bk.availability = NoAvailability

Complete(r) == r.center # 0 /\ r.service # 0 /\ r.date # ""

\* the checkAvailability that a handleBookingSubmit for request r awaits
Recheck(r) ==
  [NoBkReq EXCEPT !.kind = "checkAvailability", !.center = r.center,
                  !.date = r.date, !.service = r.service, !.chain = TRUE]

BookingSettled(ok) ==
  /\ last.act = "BookingResponse" /\ last.kind = "createBooking"
  /\ last.ok = ok

\* C27: a create-booking request is sent only with a vehicle selected, and a
\* submit without one sends nothing and leaves bookingLoading, selectedSlot
\* and showSuccessModal as they were.  After a successful booking the modal
\* is shown, the slot is cleared and availability is requested again for the
\* selection the submit was made with, provided center, service and date
\* were all set; after a failed booking the slot and the modal are as before.
C27_BookingSubmit ==
  /\ last.act = "HandleBookingSubmit" =>
       /\ last.request.kind = "createBooking" <=> bk.selectedVehicle # ""
       /\ last.request.kind = "createBooking" =>
            last.request \in bk.reqs /\ bk.bookingLoading
       /\ bk.selectedVehicle = "" =>
            /\ last.request = NoBkReq
            /\ Shot(bk) = last.before
            /\ Shot(bk).bookingLoading = last.before.bookingLoading
            /\ Shot(bk).selectedSlot = last.before.selectedSlot
            /\ Shot(bk).showSuccessModal = last.before.showSuccessModal
            /\ Shot(bk).pending = last.before.pending
  /\ BookingSettled(TRUE) =>
       /\ bk.showSuccessModal /\ bk.selectedSlot = ""
       /\ Complete(last.request) => Recheck(last.request) \in bk.reqs
       /\ ~Complete(last.request) =>
            Cardinality(bk.reqs) = last.before.pending - 1
  /\ BookingSettled(FALSE) =>
       /\ bk.selectedSlot = last.before.selectedSlot
       /\ bk.showSuccessModal = last.before.showSuccessModal
       /\ last.shown = BookingError

\* C27 as stated: after a successful booking availability is re-checked
C27_RecheckAlways ==
  BookingSettled(TRUE) =>
    \E r \in bk.reqs : r.kind = "checkAvailability" /\ r.chain

\* a booking succeeded: the modal is up, the slot is gone and the
\* availability of the booked selection is being fetched again
C27_Witness ==
  /\ BookingSettled(TRUE)
  /\ last.before.selectedSlot = Slot /\ bk.selectedSlot = ""
  /\ bk.showSuccessModal /\ bk.selectedVehicle # ""
  /\ Recheck(last.request) \in bk.reqs

Lists(b) == <<b.centers, b.services, b.vehicles>>
ListsBefore == <<last.before.centers, last.before.services, last.before.vehicles>>

Awaited(kinds) == \E r \in inflight : r.kind \in kinds /\ r.owner

BookingAwaited ==
  \E r \in bk.reqs :
    r.kind = "createBooking" \/ (r.kind = "checkAvailability" /\ r.chain)

\* C28: each submit handler has set its in-progress flag when its request
\* leaves, and the flag is true only while a request of that handler is
\* outstanding: once they have settled, with success or failure, it is false.
C28_FlagFollowsRequest ==
  /\ reg.isSubmitting => Awaited({"register"})
  /\ isUpdatingProfile => Awaited({"updateProfile"})
  /\ pw.isChangingPassword => Awaited({"changePassword"})
  /\ adm.isCreating => Awaited({"createEmployee", "getEmployees:create"})
  /\ bk.bookingLoading => BookingAwaited
  /\ (last.sent /\ last.act = "HandleSubmit") => reg.isSubmitting
  /\ (last.sent /\ last.act = "HandleProfileUpdate") => isUpdatingProfile
  /\ (last.sent /\ last.act = "HandlePasswordChange") => pw.isChangingPassword
  /\ (last.sent /\ last.act = "HandleCreateEmployee") => adm.isCreating
  /\ (last.act = "HandleBookingSubmit" /\ last.request # NoBkReq)
       => bk.bookingLoading

\* a booking failed: its flag was up while the request was out and is down
\* now that nothing is awaited
C28_Witness ==
  /\ BookingSettled(FALSE)
  /\ last.before.bookingLoading /\ ~bk.bookingLoading
  /\ ~BookingAwaited

RegisterSettled(ok) ==
  /\ last.act = "Response" /\ last.kind = "register" /\ last.owner
  /\ last.ok = ok

\* C29: a registration that succeeded leaves the Session Store as it was,
\* sets success and schedules one navigation to /login; one that failed
\* schedules none, leaves the form data as typed and records the message
\* handleApiError made of the error.
C29_RegistrationFrame ==
  /\ RegisterSettled(TRUE) =>
       /\ token = last.tokenBefore /\ user = last.userBefore
       /\ Store = last.mid
       /\ reg.success /\ reg.timer /\ ~last.flagBefore
       /\ reg.formData = last.form
  /\ RegisterSettled(FALSE) =>
       /\ reg.timer = last.flagBefore /\ ~reg.timer
       /\ ~reg.success
       /\ reg.formData = last.form /\ reg.formData # NoForm
       /\ reg.apiError = handleApiError(last.errOut)
       /\ reg.apiError # NoMessage

\* a registration was refused by the backend: the form still holds what was
\* typed, the message is displayed and no navigation is pending
C29_Witness ==
  /\ RegisterSettled(FALSE) /\ last.status = 500
  /\ reg.formData = ValidForm
  /\ reg.apiError = "Internal error"
  /\ ~reg.timer /\ ~reg.success /\ ~reg.isSubmitting

\* C21: a handler whose backend call failed has displayed a non-empty
\* message, the string handleApiError makes of the error.
C21_FailuresAreShown ==
  /\ (last.act = "Response" /\ ~last.ok /\ last.owner) =>
       /\ last.shown # ""
       /\ last.shown = handleApiError(last.errOut)
  /\ (last.act = "BookingResponse" /\ ~last.ok) => last.shown # ""

====
